---------------------------- MODULE Spec2Model ----------------------------
(***************************************************************************)
(* A model of the pitch-timeline pipeline of the repository:               *)
(*   - analyze_music.py: analyze_midi_file and its two back-ends           *)
(*     (analyze_midi_file_pretty_midi, analyze_midi_file_mido): automatic  *)
(*     vocal-track selection, gap threshold, and the fixed-step timeline   *)
(*     loop; detect_pitch and analyze_audio_file (the audio path, whose    *)
(*     entry times are in milliseconds);                                   *)
(*   - app.py: frequency_difference, calculate_score and the               *)
(*     /api/analyze-pitch handler.                                         *)
(*                                                                         *)
(* Time is counted in units of 0.05 s (the default time_resolution), so    *)
(* 0.05 s = 1, 0.3 s = 6, 0.5 s = 10.  Times are exact rationals here; the *)
(* binary floating point drift of `current_time += time_resolution` is not *)
(* modelled.  Ratios (polyphony rate, threshold, score) are kept as        *)
(* fractions [num, den] with den > 0 and compared by cross-multiplying.    *)
(* Frequencies are integers in units of 1e-5 Hz; a rounded timeline pitch  *)
(* is an integer number of 0.01 Hz.                                        *)
(***************************************************************************)
EXTENDS Integers, Sequences, FiniteSets, TLC

\* Python's None, where a time, a pitch or a track index is expected
None == -1

(***************************************************************************)
(* Program constants.                                                      *)
(***************************************************************************)
MinNotes == 50
OverlapTolerance == 1
MinThreshold == 6
DefaultAvgGap == 10
BassPitch == 40
UncertainPitch == 60
FallbackPitch == 50
DefaultTempo == 500000

(***************************************************************************)
(* Bounds of the model.                                                    *)
(***************************************************************************)
Grid == 10
MaxSlot == 3
MaxNotes == 2
MaxTracks == 2

(***************************************************************************)
(* Generic helpers.                                                        *)
(***************************************************************************)
SetMax(S) == CHOOSE x \in S : \A y \in S : y <= x
SetMin(S) == CHOOSE x \in S : \A y \in S : x <= y
MinOf(a, b) == IF a <= b THEN a ELSE b

RECURSIVE SumSeq(_)
SumSeq(s) == IF s = <<>> THEN 0 ELSE Head(s) + SumSeq(Tail(s))

RECURSIVE GCD(_, _)
GCD(a, b) == IF b = 0 THEN a ELSE GCD(b, a % b)

\* the fraction n/d (n >= 0, d > 0) in lowest terms
Frac(n, d) == [num |-> n \div GCD(n, d), den |-> d \div GCD(n, d)]
\* r > a/b and r <= a/b for a fraction r (b > 0)
FracGT(r, a, b) == r.num * b > a * r.den
FracLE(r, a, b) == r.num * b <= a * r.den
FracLT(r, a, b) == r.num * b < a * r.den

(***************************************************************************)
(* midi_note_to_frequency: 440 * 2^((note - 69) / 12), in units of 1e-5 Hz.*)
(* SemitoneTable holds octave 5 of MIDI (notes 60..71); other octaves are  *)
(* reached by doubling or halving, as the formula does.                    *)
(***************************************************************************)
SemitoneTable ==
  << 26162557, 27718263, 29366477, 31112698, 32962756, 34922823,
     36999442, 39199544, 41530470, 44000000, 46616376, 49388330 >>

RECURSIVE Pow2(_)
Pow2(k) == IF k = 0 THEN 1 ELSE 2 * Pow2(k - 1)

MidiNoteToFrequency(note) ==
  LET k == note % 12
      o == note \div 12
  IN IF o >= 5 THEN SemitoneTable[k + 1] * Pow2(o - 5)
     ELSE SemitoneTable[k + 1] \div Pow2(5 - o)

\* round(pitch, 2) if pitch else None   (result in units of 0.01 Hz)
RoundPitch(pitch) ==
  IF pitch = None \/ pitch = 0 THEN None ELSE (pitch + 500) \div 1000

(***************************************************************************)
(* sorted(notes, key=start): Python's sort is stable.                      *)
(***************************************************************************)
\* rank[i] is the number of items that sorted() puts before item i.
SortByStart(s) ==
  LET n == Len(s)
      Before(j, i) == \/ s[j].start < s[i].start
                      \/ (s[j].start = s[i].start /\ j < i)
      rank == SubSeq([i \in 1..n |-> Cardinality({j \in 1..n : Before(j, i)})],
                     1, n)
  IN SubSeq([k \in 1..n |-> s[CHOOSE i \in 1..n : rank[i] = k - 1]], 1, n)

(***************************************************************************)
(* Polyphony of a track (both back-ends share the loop; only the final     *)
(* division differs).                                                      *)
(***************************************************************************)
RECURSIVE OverlapFrom(_, _)
OverlapFrom(sorted, j) ==
  IF j >= Len(sorted) THEN 0
  ELSE LET curr == sorted[j]
           next == sorted[j + 1]
       IN (IF curr.end > next.start + OverlapTolerance
           THEN MinOf(curr.end, next.end) - next.start
           ELSE 0) + OverlapFrom(sorted, j + 1)

OverlapDuration(sorted) == OverlapFrom(sorted, 1)

TotalDuration(sorted) == sorted[Len(sorted)].end - sorted[1].start

\* pretty_midi: overlap_duration / total_duration if total_duration > 0 else 0
PolyphonyPrettyMidi(sorted) ==
  LET tot == TotalDuration(sorted)
      ov == OverlapDuration(sorted)
  IN IF tot > 0 THEN Frac(ov, tot) ELSE Frac(0, 1)

\* mido: min(1.0, overlap_duration / total_duration) if total_duration > 0 else 0
PolyphonyMido(sorted) ==
  LET tot == TotalDuration(sorted)
      ov == OverlapDuration(sorted)
  IN IF tot > 0 THEN (IF ov > tot THEN Frac(1, 1) ELSE Frac(ov, tot))
     ELSE Frac(0, 1)

RECURSIVE SumPitch(_, _)
SumPitch(notes, i) ==
  IF i > Len(notes) THEN 0 ELSE notes[i].pitch + SumPitch(notes, i + 1)

\* avg_pitch as a fraction
AvgPitch(notes) ==
  IF Len(notes) = 0 THEN Frac(0, 1) ELSE Frac(SumPitch(notes, 1), Len(notes))

(***************************************************************************)
(* The classification chain of the selection loop.                         *)
(***************************************************************************)
TypeStr(poly, avg) ==
  IF FracGT(poly, 3, 10) THEN "Instrument"
  ELSE IF FracLT(avg, BassPitch, 1) THEN "Bass"
  ELSE IF FracGT(poly, 1, 10) /\ ~FracLT(avg, UncertainPitch, 1)
       THEN "VocalCandidateUncertain"
  ELSE "VocalCandidate"

\* A faulty variant: a polyphony rate of exactly 0.3 is excluded too.
IsVocalCandidateBelow30(poly, avg) ==
  FracLT(poly, 3, 10) /\ ~FracLT(avg, BassPitch, 1)

IsVocalCandidate(poly, avg) ==
  TypeStr(poly, avg) \in {"VocalCandidate", "VocalCandidateUncertain"}

\* score = (1 - polyphony_rate) * 100 + n / 100, times 100 * poly.den
ScoreNum(c) == 10000 * (c.poly.den - c.poly.num) + c.n * c.poly.den
ScoreGT(a, b) == ScoreNum(a) * b.poly.den > ScoreNum(b) * a.poly.den

\* A faulty variant: the last item with the greatest score.
LastBestCandidate(cands) ==
  cands[CHOOSE i \in 1..Len(cands) :
           /\ \A j \in 1..Len(cands) : ~ScoreGT(cands[j], cands[i])
           /\ \A j \in (i + 1)..Len(cands) : ScoreGT(cands[i], cands[j])]

\* max(candidates, key=score): the first item with the greatest score
BestCandidate(cands) ==
  cands[CHOOSE i \in 1..Len(cands) :
           /\ \A j \in 1..Len(cands) : ~ScoreGT(cands[j], cands[i])
           /\ \A j \in 1..(i - 1) : ScoreGT(cands[i], cands[j])]

(***************************************************************************)
(* mido back-end: a track is a sequence of messages                        *)
(*   [type, time (delta ticks), note, velocity, channel, tempo].           *)
(* A Python dict is a sequence of entries in insertion order: assigning an *)
(* existing key keeps its place, a new key is appended.                    *)
(***************************************************************************)
DictHas(d, k) == \E i \in 1..Len(d) : d[i].key = k
DictGet(d, k) == d[CHOOSE i \in 1..Len(d) : d[i].key = k]
DictSet(d, e) ==
  IF DictHas(d, e.key)
  THEN [i \in 1..Len(d) |-> IF d[i].key = e.key THEN e ELSE d[i]]
  ELSE Append(d, e)
DictDel(d, k) == SelectSeq(d, LAMBDA x : x.key # k)

\* mid.ticks_per_beat: with the default tempo one tick is one time unit
TicksPerBeat == DefaultTempo \div 50000

\* mido.tick2second(ticks, ticks_per_beat, tempo) = ticks * tempo * 1e-6 /
\* ticks_per_beat seconds, here in units of 0.05 s = 50000 microseconds.
Tick2Second(ticks, tpb, tempo) == (ticks * tempo) \div (tpb * 50000)

IsNoteOn(msg) == msg.type = "note_on" /\ msg.velocity > 0
IsNoteOff(msg) ==
  msg.type = "note_off" \/ (msg.type = "note_on" /\ msg.velocity = 0)

ParseStart == [ticks |-> 0, tempo |-> DefaultTempo, active |-> <<>>,
               events |-> <<>>, chans |-> <<>>]

\* One message of the candidate-scoring pass (and of the fallback pass,
\* whose loop body is the same): active_notes is keyed by the note number.
NoteKeyStep(st, msg, tpb) ==
  LET ticks == st.ticks + msg.time
      tempo == IF msg.type = "set_tempo" THEN msg.tempo ELSE st.tempo
      now == Tick2Second(ticks, tpb, tempo)
      st1 == [st EXCEPT !.ticks = ticks, !.tempo = tempo]
  IN IF IsNoteOn(msg)
     THEN [st1 EXCEPT !.active =
             DictSet(st.active, [key |-> msg.note, note |-> msg.note,
                                 channel |-> 0, start |-> now, tempo |-> tempo])]
     ELSE IF IsNoteOff(msg) /\ DictHas(st.active, msg.note)
     THEN LET a == DictGet(st.active, msg.note)
          IN [st1 EXCEPT
                !.events = Append(st.events,
                             [start |-> a.start,
                              end |-> Tick2Second(ticks, tpb, a.tempo),
                              pitch |-> msg.note]),
                !.active = DictDel(st.active, msg.note)]
     ELSE st1

\* `for msg in track`, folded by halves (ticks only grow, so the first
\* half is always followed by the second).
RECURSIVE NoteKeyFold(_, _, _, _, _)
NoteKeyFold(track, lo, hi, st, tpb) ==
  IF lo > hi THEN st
  ELSE IF lo = hi THEN NoteKeyStep(st, track[lo], tpb)
  ELSE LET mid == (lo + hi) \div 2
           half == NoteKeyFold(track, lo, mid, st, tpb)
       IN IF half.ticks >= 0 THEN NoteKeyFold(track, mid + 1, hi, half, tpb)
          ELSE half

\* Notes still active when the track ends last until mid.length.
PendingNotes(active, length) ==
  [i \in 1..Len(active) |->
     [start |-> active[i].start, end |-> length, pitch |-> active[i].note]]

\* The candidate-scoring pass: completed notes, then the pending ones.
CandidatePass(track, tpb, length) ==
  LET st == NoteKeyFold(track, 1, Len(track), ParseStart, tpb)
  IN st.events \o PendingNotes(st.active, length)

\* The fallback pass: completed notes only.
FallbackPass(track, tpb) == NoteKeyFold(track, 1, Len(track), ParseStart, tpb).events

\* One message of the timeline pass: active_notes is keyed by channel, then
\* by note number; a channel's dict is created at its first note_on.
ChannelKeyStep(st, msg, tpb) ==
  LET ticks == st.ticks + msg.time
      tempo == IF msg.type = "set_tempo" THEN msg.tempo ELSE st.tempo
      now == Tick2Second(ticks, tpb, tempo)
      key == <<msg.channel, msg.note>>
      st1 == [st EXCEPT !.ticks = ticks, !.tempo = tempo]
  IN IF IsNoteOn(msg)
     THEN [st1 EXCEPT
             !.chans = IF \E i \in 1..Len(st.chans) : st.chans[i] = msg.channel
                       THEN st.chans ELSE Append(st.chans, msg.channel),
             !.active =
               DictSet(st.active, [key |-> key, note |-> msg.note,
                                   channel |-> msg.channel,
                                   start |-> now, tempo |-> tempo])]
     ELSE IF IsNoteOff(msg) /\ DictHas(st.active, key)
     THEN LET a == DictGet(st.active, key)
          IN [st1 EXCEPT
                !.events = Append(st.events,
                             [start |-> a.start,
                              end |-> Tick2Second(ticks, tpb, a.tempo),
                              pitch |-> msg.note]),
                !.active = DictDel(st.active, key)]
     ELSE st1

RECURSIVE ChannelKeyFold(_, _, _, _, _)
ChannelKeyFold(track, lo, hi, st, tpb) ==
  IF lo > hi THEN st
  ELSE IF lo = hi THEN ChannelKeyStep(st, track[lo], tpb)
  ELSE LET mid == (lo + hi) \div 2
           half == ChannelKeyFold(track, lo, mid, st, tpb)
       IN IF half.ticks >= 0 THEN ChannelKeyFold(track, mid + 1, hi, half, tpb)
          ELSE half

RECURSIVE PendingByChannel(_, _, _)
PendingByChannel(active, chans, length) ==
  IF chans = <<>> THEN <<>>
  ELSE PendingNotes(SelectSeq(active, LAMBDA a : a.channel = Head(chans)), length)
         \o PendingByChannel(active, Tail(chans), length)

\* The timeline pass over the selected track.
TimelinePass(track, tpb, length) ==
  LET st == ChannelKeyFold(track, 1, Len(track), ParseStart, tpb)
  IN st.events \o PendingByChannel(st.active, st.chans, length)

\* max(fallback_tracks, key=(avg_pitch if avg_pitch >= 50 else 0, count)):
\* the first item with the greatest key, compared lexicographically.
FallbackKeyGT(a, b) ==
  LET ka == IF FracLT(a.avg, FallbackPitch, 1) THEN Frac(0, 1) ELSE a.avg
      kb == IF FracLT(b.avg, FallbackPitch, 1) THEN Frac(0, 1) ELSE b.avg
  IN \/ ka.num * kb.den > kb.num * ka.den
     \/ (ka.num * kb.den = kb.num * ka.den /\ a.n > b.n)

BestFallback(fb) ==
  fb[CHOOSE i \in 1..Len(fb) :
        /\ \A j \in 1..Len(fb) : ~FallbackKeyGT(fb[j], fb[i])
        /\ \A j \in 1..(i - 1) : FallbackKeyGT(fb[i], fb[j])]

(***************************************************************************)
(* Timeline construction from the selected track's notes.                  *)
(***************************************************************************)
VocalStartTime(notes) == SetMin({notes[i].start : i \in 1..Len(notes)})

\* gaps between consecutive notes (in start order), the positive ones
PositiveGaps(sorted) ==
  LET gap(i) == sorted[i + 1].start - sorted[i].end
      idx == SelectSeq([i \in 1..(Len(sorted) - 1) |-> i], LAMBDA i : gap(i) > 0)
  IN [k \in 1..Len(idx) |-> gap(idx[k])]

\* instrumental_threshold = max(0.3, avg_gap * 1.5), avg_gap = mean(gaps) or 0.5
InstrumentalThreshold(sorted) ==
  LET gaps == PositiveGaps(sorted)
      avg == IF gaps = <<>> THEN Frac(DefaultAvgGap, 1)
             ELSE Frac(SumSeq(gaps), Len(gaps))
      scaled == Frac(3 * avg.num, 2 * avg.den)
  IN IF FracGT(scaled, MinThreshold, 1) THEN scaled ELSE Frac(MinThreshold, 1)

ActiveNotes(notes, t) ==
  SelectSeq(notes, LAMBDA n : n.start <= t /\ t < n.end)

\* A faulty variant: the first active note, whatever its pitch.
FirstActiveNote(active) == active[1]

\* max(active_notes, key=pitch): the first note with the greatest pitch
HighestNote(active) ==
  active[CHOOSE i \in 1..Len(active) :
            /\ \A j \in 1..Len(active) : active[j].pitch <= active[i].pitch
            /\ \A j \in 1..(i - 1) : active[j].pitch < active[i].pitch]

\* max(vocal_notes, key=frequency): the first note with the greatest frequency
HighestFrequencyNote(active) ==
  active[CHOOSE i \in 1..Len(active) :
            /\ \A j \in 1..Len(active) :
                 MidiNoteToFrequency(active[j].pitch) <= MidiNoteToFrequency(active[i].pitch)
            /\ \A j \in 1..(i - 1) :
                 MidiNoteToFrequency(active[j].pitch) < MidiNoteToFrequency(active[i].pitch)]

\* A faulty variant: a note that ends at t itself is not a preceding note.
RECURSIVE ScanNeighboursStrict(_, _, _, _)
ScanNeighboursStrict(sorted, i, t, prev) ==
  IF i > Len(sorted) THEN [prev_note_end |-> prev, next_note_start |-> None]
  ELSE LET note == sorted[i]
           prev2 == IF note.end < t THEN note.end ELSE prev
       IN IF note.start > t
          THEN [prev_note_end |-> prev2, next_note_start |-> note.start]
          ELSE ScanNeighboursStrict(sorted, i + 1, t, prev2)

\* The forward scan over the sorted notes: prev_note_end is overwritten by
\* every note that has ended, and the scan stops at the first note that
\* starts after t.
RECURSIVE ScanNeighbours(_, _, _, _)
ScanNeighbours(sorted, i, t, prev) ==
  IF i > Len(sorted) THEN [prev_note_end |-> prev, next_note_start |-> None]
  ELSE LET note == sorted[i]
           prev2 == IF note.end <= t THEN note.end ELSE prev
       IN IF note.start > t
          THEN [prev_note_end |-> prev2, next_note_start |-> note.start]
          ELSE ScanNeighbours(sorted, i + 1, t, prev2)

IsInstrumental(nb, t, thr) ==
  LET from_prev == /\ nb.prev_note_end # None
                   /\ (t - nb.prev_note_end) * thr.den > thr.num
  IN \/ from_prev
     \/ /\ nb.next_note_start # None
        /\ ~from_prev
        /\ (nb.next_note_start - t) * thr.den > thr.num

\* reversed(sorted_notes): the first note, from the back, with end <= t
LastEndedNote(sorted, t) ==
  sorted[SetMax({i \in 1..Len(sorted) : sorted[i].end <= t})]

\* the first note, from the front, with start > t
FirstFollowingNote(sorted, t) ==
  sorted[SetMin({i \in 1..Len(sorted) : sorted[i].start > t})]

\* A faulty variant: the following note is preferred to the preceding one.
FillPitchFollowingFirst(sorted, nb, t) ==
  IF nb.next_note_start # None
  THEN MidiNoteToFrequency(FirstFollowingNote(sorted, t).pitch)
  ELSE IF nb.prev_note_end # None
  THEN MidiNoteToFrequency(LastEndedNote(sorted, t).pitch)
  ELSE None

\* pitch of a gap that is not instrumental (legato fill)
FillPitch(sorted, nb, t) ==
  IF nb.prev_note_end # None
  THEN MidiNoteToFrequency(LastEndedNote(sorted, t).pitch)
  ELSE IF nb.next_note_start # None
  THEN MidiNoteToFrequency(FirstFollowingNote(sorted, t).pitch)
  ELSE None

GapPitch(sorted, t, thr) ==
  LET nb == ScanNeighbours(sorted, 1, t, None)
  IN IF IsInstrumental(nb, t, thr) THEN None ELSE FillPitch(sorted, nb, t)

\* A faulty variant: no lead-in before the vocal start.
PitchAtPrettyMidiNoLeadIn(notes, sorted, t, vstart, thr) ==
  LET active == ActiveNotes(notes, t)
  IN IF active # <<>>
     THEN MidiNoteToFrequency(HighestNote(active).pitch)
     ELSE GapPitch(sorted, t, thr)

\* the pitch of one timeline entry, pretty_midi back-end
PitchAtPrettyMidi(notes, sorted, t, vstart, thr) ==
  IF t < vstart THEN None
  ELSE LET active == ActiveNotes(notes, t)
       IN IF active # <<>>
          THEN MidiNoteToFrequency(HighestNote(active).pitch)
          ELSE GapPitch(sorted, t, thr)

\* the pitch of one timeline entry, mido back-end (vocal_track_idx is set)
PitchAtMido(notes, sorted, t, vstart, thr) ==
  IF vstart # None /\ t < vstart THEN None
  ELSE LET active == ActiveNotes(notes, t)
       IN IF active # <<>>
          THEN MidiNoteToFrequency(HighestFrequencyNote(active).pitch)
          ELSE GapPitch(sorted, t, thr)

(***************************************************************************)
(* The inputs of a call analyze_midi_file(path, time_resolution, idx).     *)
(***************************************************************************)
Note(s, e, p) == [start |-> s, end |-> e, pitch |-> p]
Instrument(drum, notes) == [is_drum |-> drum, notes |-> notes]
Msg(type, time, note, velocity, channel, tempo) ==
  [type |-> type, time |-> time, note |-> note, velocity |-> velocity,
   channel |-> channel, tempo |-> tempo]

\* The MIDI messages of a list of notes on one channel (note_off before
\* note_on at the same tick), as a file written from these notes holds them.
RECURSIVE NoteEvents(_, _)
NoteEvents(notes, n) ==
  IF n = 0 THEN <<>>
  ELSE NoteEvents(notes, n - 1)
         \o << [t |-> notes[n].start, on |-> 1, pitch |-> notes[n].pitch],
                [t |-> notes[n].end, on |-> 0, pitch |-> notes[n].pitch] >>

\* Events in file order: by tick, note_off before note_on, then by note.
SortEvents(ev) ==
  LET n == Len(ev)
      Before(a, b) == \/ 2 * ev[a].t + ev[a].on < 2 * ev[b].t + ev[b].on
                      \/ (ev[a].t = ev[b].t /\ ev[a].on = ev[b].on /\ a < b)
      rank == SubSeq([e \in 1..n |-> Cardinality({f \in 1..n : Before(f, e)})],
                     1, n)
  IN SubSeq([k \in 1..n |-> ev[CHOOSE e \in 1..n : rank[e] = k - 1]], 1, n)

MsgsOf(notes, ch) ==
  LET ord == SortEvents(NoteEvents(notes, Len(notes)))
  IN SubSeq([k \in 1..Len(ord) |->
               Msg(IF ord[k].on = 1 THEN "note_on" ELSE "note_off",
                   ord[k].t - (IF k = 1 THEN 0 ELSE ord[k - 1].t),
                   ord[k].pitch, IF ord[k].on = 1 THEN 64 ELSE 0, ch, 0)],
            1, Len(ord))

EndOfNotes(notes) ==
  IF notes = <<>> THEN 0 ELSE SetMax({notes[i].end : i \in 1..Len(notes)})

\* Short note lists on a grid: every note list of at most MaxNotes notes.
SmallPitches == {60, 64}
SmallNotes ==
  {Note(x[1] * Grid, x[2] * Grid, x[3]) :
     x \in {y \in (0..MaxSlot) \X (0..MaxSlot) \X SmallPitches : y[1] < y[2]}}
SmallLists == UNION {[1..k -> SmallNotes] : k \in 0..MaxNotes}

\* Long regular tracks: n notes every `step`, each `dur` long, the first k
\* of them `ldur` long, on the keys of `pitches` in turn.
BigTrack(n, step, dur, k, ldur, pitches) ==
  [i \in 1..n |->
     Note((i - 1) * step,
          (i - 1) * step + (IF i <= k THEN ldur ELSE dur),
          pitches[((i - 1) % Len(pitches)) + 1])]

\* Notes every half second (10 units): polyphony 0.05, 0.5, 0.3 and 0.32;
\* the average pitch of Melodic is 65.
Melodic == BigTrack(MinNotes, 10, 10, 5, 15, <<64, 66>>)
MelodicLong == BigTrack(MinNotes + 1, 10, 10, 5, 15, <<64, 66>>)
Chordal == BigTrack(MinNotes, 10, 10, 25, 20, <<60, 62>>)
Exact30 == BigTrack(MinNotes, 10, 10, 15, 20, <<60, 62>>)
Over30 == BigTrack(MinNotes, 10, 10, 16, 20, <<60, 62>>)
LowChordal == BigTrack(MinNotes, 10, 10, 25, 20, <<36, 38>>)
\* Three notes at a time; in DenseShortLast the last-starting note is short.
Dense == BigTrack(MinNotes, 1, 3, MinNotes - 1, 3, <<62, 63, 64>>)
DenseShortLast == BigTrack(MinNotes, 1, 1, MinNotes - 1, 3, <<62, 63, 64>>)
Bass == BigTrack(MinNotes, 10, 10, 0, 10, <<36>>)
LowMono == BigTrack(MinNotes, 10, 10, 0, 10, <<40>>)
TooShort == BigTrack(MinNotes - 1, 10, 10, 0, 10, <<65>>)

BigNotePool == {Melodic, MelodicLong, Chordal, Exact30, Over30, LowChordal,
                Dense, DenseShortLast, Bass, LowMono, TooShort}

SmallNotePool ==
  { <<>>,
    <<Note(0, Grid, 48)>>,
    <<Note(0, Grid, 60), Note(Grid, 2 * Grid, 64)>>,
    <<Note(Grid, 2 * Grid, 72)>> }

SeqsUpTo(S, n) == UNION {[1..k -> S] : k \in 0..n}

\* pretty_midi instruments
PmSmallPool ==
  {Instrument(FALSE, ns) : ns \in SmallNotePool}
    \cup {Instrument(TRUE, <<Note(0, Grid, 45), Note(Grid, 2 * Grid, 45)>>)}
PmBigPool ==
  {Instrument(FALSE, ns) : ns \in BigNotePool}
    \cup {Instrument(TRUE, Melodic)}

\* mido tracks
PendingOnly == <<Msg("note_on", 0, 60, 64, 0, 0)>>
\* A key struck on two channels at once, a note_on of velocity 0 as its
\* note_off, after a tempo change at tick 0.
Retrigger ==
  << Msg("set_tempo", 0, 0, 0, 0, 2 * DefaultTempo),
     Msg("note_on", 0, 60, 64, 0, 0),
     Msg("note_on", Grid \div 2, 60, 64, 1, 0),
     Msg("note_on", Grid \div 2, 60, 0, 0, 0),
     Msg("note_off", Grid \div 2, 60, 0, 1, 0) >>
MidoSmallPool ==
  {MsgsOf(ns, 0) : ns \in SmallNotePool} \cup {PendingOnly, Retrigger}
MelodicMsgs == MsgsOf(Melodic, 0)
ChordalMsgs == MsgsOf(Chordal, 0)
MidoBigPool ==
  {MsgsOf(ns, 0) : ns \in BigNotePool} \cup {MsgsOf(Melodic, 9)}

Call(b, ins, trk, total, res, idx) ==
  [backend |-> b, instruments |-> ins, tracks |-> trk, total_time |-> total,
   time_resolution |-> res, vocal_track_idx |-> idx]

\* One explicit track of a few notes, vocal_track_idx = 0 (the default).
TotalTimes(ns) ==
  {Grid * s : s \in 0..MaxSlot} \cap (EndOfNotes(ns)..(MaxSlot * Grid))
TimelineCalls ==
  UNION {
    {Call("pretty_midi", <<Instrument(FALSE, ns)>>, <<>>, total, Grid, 0) :
       total \in TotalTimes(ns)}
    \cup
    {Call("mido", <<>>, <<MsgsOf(ns, 0)>>, total, Grid, 0) :
       total \in TotalTimes(ns)} : ns \in SmallLists}

\* The two-note scenario of the test plan, at the default resolution.
Scenario == <<Note(0, 20, 60), Note(24, 40, 64)>>
ScenarioCalls ==
  { Call("pretty_midi", <<Instrument(FALSE, Scenario)>>, <<>>, 40, 1, 0),
    Call("mido", <<>>, <<MsgsOf(Scenario, 0)>>, 40, 1, 0) }

\* The scenario at steps that do not divide the duration (0.15 s, 0.35 s).
OffGridCalls ==
  {Call("pretty_midi", <<Instrument(FALSE, Scenario)>>, <<>>, 40, r, 0) :
     r \in {3, 7}}
  \cup
  {Call("mido", <<>>, <<MsgsOf(Scenario, 0)>>, 40, r, 0) : r \in {3, 7}}

\* Files of short tracks, with and without an explicit index.
SmallFileCalls ==
  {Call("pretty_midi", ins, <<>>, MaxSlot * Grid, Grid, idx) :
     ins \in SeqsUpTo(PmSmallPool, MaxTracks), idx \in {None, 1}}
  \cup
  {Call("mido", <<>>, trk, MaxSlot * Grid, Grid, idx) :
     trk \in SeqsUpTo(MidoSmallPool, MaxTracks), idx \in {None, 1}}
  \cup
  { Call("mido", <<>>, <<PendingOnly>>, 0, Grid, None),
    Call("none", <<>>, <<>>, 0, Grid, None) }

\* pm.get_end_time() of a file whose last event is a note end
EndOfFile(ins) == SetMax({EndOfNotes(ins[i].notes) : i \in 1..Len(ins)})

\* mid.length of a file without tempo changes: the longest track
TrackTicks(track) == SumSeq([i \in 1..Len(track) |-> track[i].time])
MidoLength(trks) ==
  SetMax({Tick2Second(TrackTicks(trks[i]), TicksPerBeat, DefaultTempo) :
            i \in 1..Len(trks)})

\* Files of long tracks, automatic selection, five timeline entries.
BigFileCalls ==
  {Call("pretty_midi", ins, <<>>, EndOfFile(ins), EndOfFile(ins) \div 4, None) :
     ins \in SeqsUpTo(PmBigPool, MaxTracks) \ {<<>>}}
  \cup
  {Call("mido", <<>>, trk, MidoLength(trk), MidoLength(trk) \div 4, None) :
     trk \in SeqsUpTo(MidoBigPool, MaxTracks) \ {<<>>}}

Calls ==
  TimelineCalls \cup ScenarioCalls \cup OffGridCalls \cup SmallFileCalls
    \cup BigFileCalls

(***************************************************************************)
(* app.py: scoring.  A frequency argument is None, 0, a negative number or *)
(* a positive number; a positive frequency is Base * 2^(cents/1200) for an *)
(* integer number of cents, so that 1200 * log2(f2 / f1) is the difference *)
(* of the two cent values.  Twice the raw score is an integer then.        *)
(***************************************************************************)
MaxCents == 104

Pitch(kind, cents) == [kind |-> kind, cents |-> cents]
NoPitch == Pitch("none", 0)
PositivePitches == {Pitch("pos", c) : c \in 0..MaxCents}
PitchValues ==
  {NoPitch, Pitch("zero", 0)} \cup PositivePitches
    \cup {Pitch("neg", c) : c \in 0..MaxCents}

\* Python truth value of a frequency: None and 0 are false
Truthy(f) == f.kind \in {"pos", "neg"}

Returned(v) == [kind |-> "return", value |-> v]
Raised(e) == [kind |-> "raise", value |-> e]
ReturnedNone == [kind |-> "return_none", value |-> 0]

\* A faulty variant: the size of the difference, without its sign.
FrequencyDifferenceUnsigned(freq1, freq2) ==
  IF freq1.kind # "pos" \/ freq2.kind # "pos" THEN [kind |-> "return_none", value |-> 0]
  ELSE [kind |-> "return",
        value |-> IF freq2.cents < freq1.cents THEN freq1.cents - freq2.cents
                  ELSE freq2.cents - freq1.cents]

\* frequency_difference: None, or the cents from freq1 to freq2
FrequencyDifference(freq1, freq2) ==
  IF ~Truthy(freq1) \/ ~Truthy(freq2) \/ freq1.kind # "pos" \/ freq2.kind # "pos"
  THEN ReturnedNone
  ELSE Returned(freq2.cents - freq1.cents)

Abs(x) == IF x < 0 THEN -x ELSE x

\* Faulty variants of the mapping: the fifth range falling by 1.5 a cent,
\* the second range starting from 97, the fourth range starting from 90.
ScoreOfRange2Steep(k, diff) ==
  CASE k = 1 -> 200 - diff
    [] k = 2 -> 195 - (diff - 5)
    [] k = 3 -> 190 - 2 * (diff - 10)
    [] k = 4 -> 170 - 3 * (diff - 20)
    [] k = 5 -> 140 - 3 * (diff - 30)
    [] OTHER -> IF 100 - 2 * (diff - 50) > 0 THEN 100 - 2 * (diff - 50) ELSE 0
ScoreOfRange2Gap(k, diff) ==
  CASE k = 1 -> 200 - diff
    [] k = 2 -> 194 - (diff - 5)
    [] k = 3 -> 190 - 2 * (diff - 10)
    [] k = 4 -> 170 - 3 * (diff - 20)
    [] k = 5 -> 140 - 2 * (diff - 30)
    [] OTHER -> IF 100 - 2 * (diff - 50) > 0 THEN 100 - 2 * (diff - 50) ELSE 0
ScoreOfRange2Jump(k, diff) ==
  CASE k = 1 -> 200 - diff
    [] k = 2 -> 195 - (diff - 5)
    [] k = 3 -> 190 - 2 * (diff - 10)
    [] k = 4 -> 180 - 3 * (diff - 20)
    [] k = 5 -> 140 - 2 * (diff - 30)
    [] OTHER -> IF 100 - 2 * (diff - 50) > 0 THEN 100 - 2 * (diff - 50) ELSE 0

\* twice the score that the formula of range k (1..6) gives for `diff` cents
ScoreOfRange2(k, diff) ==
  CASE k = 1 -> 200 - diff
    [] k = 2 -> 195 - (diff - 5)
    [] k = 3 -> 190 - 2 * (diff - 10)
    [] k = 4 -> 170 - 3 * (diff - 20)
    [] k = 5 -> 140 - 2 * (diff - 30)
    [] OTHER -> IF 100 - 2 * (diff - 50) > 0 THEN 100 - 2 * (diff - 50) ELSE 0

\* the range that the if/elif chain takes for `diff`
RangeOf(diff) ==
  IF diff <= 5 THEN 1
  ELSE IF diff <= 10 THEN 2
  ELSE IF diff <= 20 THEN 3
  ELSE IF diff <= 30 THEN 4
  ELSE IF diff <= 50 THEN 5
  ELSE 6

\* twice the raw score of a deviation of `diff` cents
RawScore2(diff) == ScoreOfRange2(RangeOf(diff), diff)

\* int(round(score)): Python rounds a half to the even neighbour
RoundHalfEven(score2) ==
  IF score2 % 2 = 0 THEN score2 \div 2
  ELSE IF ((score2 - 1) \div 2) % 2 = 0 THEN (score2 - 1) \div 2
  ELSE (score2 + 1) \div 2

\* calculate_score: abs(None) raises TypeError
CalculateScore(user, target) ==
  IF ~Truthy(user) \/ ~Truthy(target) THEN Returned(0)
  ELSE LET d == FrequencyDifference(user, target)
       IN IF d.kind = "return_none" THEN Raised("TypeError")
          ELSE Returned(RoundHalfEven(RawScore2(Abs(d.value))))

Response(status, score, accuracy) ==
  [kind |-> "response", status |-> status, score |-> score,
   accuracy |-> accuracy]

\* What detect_pitch(audio_data, sample_rate) does for the request's
\* sampleRate: an absent key is replaced by 44100; at a rate of 0 both periods
\* are 0, no period is searched and None is returned; a rate that is no
\* number (a string, null) raises at sample_rate / 800, unless the buffer is
\* quiet and None was returned before.
DetectRaised == Pitch("raise", 0)
SampleRateFields == {"absent", "zero", "non_numeric", "number"}
DetectOutcomes(rate) ==
  CASE rate = "zero" -> {NoPitch}
    [] rate = "non_numeric" -> {NoPitch, DetectRaised}
    [] OTHER -> {NoPitch} \cup PositivePitches

\* the request reaches detect_pitch (line 142)
DetectInvoked(audio) == audio = "samples"

\* /api/analyze-pitch: `audio` is the request's audioData ("absent",
\* "samples" or "non_numeric"), `detected` what detect_pitch returns for it.
AnalyzePitchResponse(audio, detected, target) ==
  IF audio = "absent" THEN Response(400, None, None)
  ELSE IF audio = "non_numeric" THEN Response(500, None, None)
  ELSE IF detected = DetectRaised THEN Response(500, None, None)
  ELSE IF Truthy(detected) /\ Truthy(target)
  THEN LET r == CalculateScore(detected, target)
       IN IF r.kind = "raise" THEN Response(500, None, None)
          ELSE Response(200, r.value, r.value)
  ELSE Response(200, 0, 0)

(***************************************************************************)
(* detect_pitch (analyze_music.py and app.py hold the same body) and       *)
(* analyze_audio_file.  A buffer is known by what detect_pitch reads from  *)
(* it: its length, its RMS in thousandths, and the correlation             *)
(* np.corrcoef(buffer[:-period], buffer[period:])[0, 1] of every period,   *)
(* in hundredths: `background` for all periods but the listed peaks.  A    *)
(* number is NaN or a value.  The detected frequency sample_rate /         *)
(* best_period is an exact fraction of Hz.  A sampled sine is known by its *)
(* frequency in Hz; its correlations are counted in 1 / `scale`, the scale *)
(* being the sample rate, so that their order is exact.                    *)
(***************************************************************************)
MaxFrequency == 800
MinFrequency == 80
CorrThreshold == 15
WindowMs == 100
HopMs == 50
AudioVolumeThreshold == 20
LibrosaRate == 44100

Num(v) == [nan |-> FALSE, value |-> v]
NaN == [nan |-> TRUE, value |-> 0]
Peak(period, corr) == [period |-> period, corr |-> corr]
Buffer(len, rms, peaks, background) ==
  [len |-> len, rms |-> rms, peaks |-> peaks, background |-> background,
   sine |-> 0, scale |-> 100]
SineBuffer(len, rms, frequency, sample_rate) ==
  [len |-> len, rms |-> rms, peaks |-> <<>>, background |-> NaN,
   sine |-> frequency, scale |-> sample_rate]

\* The correlation of a sine with itself `period` samples later is the
\* cosine of the phase between them, period * frequency / sample_rate of a
\* turn: 1 at a whole number of turns, falling with the distance d from it.
\* Kept as the triangle 1 - 4 d, which orders the periods as the cosine does.
SineCorrelation(buffer, period) ==
  LET r == (period * buffer.sine) % buffer.scale
      d == IF 2 * r <= buffer.scale THEN r ELSE buffer.scale - r
  IN Num(buffer.scale - 4 * d)

\* A faulty variant: slices without variance count as fully correlated.
CorrelationConstantIsOne(buffer, period) ==
  IF buffer.sine > 0 THEN SineCorrelation(buffer, period)
  ELSE IF \E i \in 1..Len(buffer.peaks) : buffer.peaks[i].period = period
  THEN buffer.peaks[CHOOSE i \in 1..Len(buffer.peaks) :
                      buffer.peaks[i].period = period].corr
  ELSE IF buffer.background.nan THEN Num(100) ELSE buffer.background

Correlation(buffer, period) ==
  IF buffer.sine > 0 THEN SineCorrelation(buffer, period)
  ELSE IF \E i \in 1..Len(buffer.peaks) : buffer.peaks[i].period = period
  THEN buffer.peaks[CHOOSE i \in 1..Len(buffer.peaks) :
                      buffer.peaks[i].period = period].corr
  ELSE buffer.background

\* best_period = 0, best_correlation = 0
BestStart == [best_period |-> 0, best_correlation |-> 0]

\* A faulty variant: a later period of equal correlation replaces the best.
PeriodStepLast(st, buffer, period) ==
  LET correlation == Correlation(buffer, period)
  IN IF ~correlation.nan /\ correlation.value >= st.best_correlation
     THEN [best_period |-> period, best_correlation |-> correlation.value]
     ELSE st

\* one iteration of `for period in range(min_period, max_period)`
PeriodStep(st, buffer, period) ==
  LET correlation == Correlation(buffer, period)
  IN IF ~correlation.nan /\ correlation.value > st.best_correlation
     THEN [best_period |-> period, best_correlation |-> correlation.value]
     ELSE st

\* the loop over the periods lo..hi, folded by halves
RECURSIVE PeriodFold(_, _, _, _)
PeriodFold(buffer, lo, hi, st) ==
  IF lo > hi THEN st
  ELSE IF lo = hi THEN PeriodStep(st, buffer, lo)
  ELSE LET mid == (lo + hi) \div 2
           half == PeriodFold(buffer, lo, mid, st)
       IN IF half.best_period >= 0 THEN PeriodFold(buffer, mid + 1, hi, half)
          ELSE half

\* best_correlation > 0.15
AboveThreshold(buffer, correlation) ==
  100 * correlation > CorrThreshold * buffer.scale

\* what detect_pitch returns: None (best_period is None when the loop was
\* not reached), or the frequency of the period selected
Undetected(best_period) ==
  [kind |-> "none", best_period |-> best_period, freq |-> Frac(0, 1)]
Detected(best_period, sample_rate) ==
  [kind |-> "freq", best_period |-> best_period,
   freq |-> Frac(sample_rate, best_period)]

\* A faulty variant: no test of the buffer's length.
DetectPitchAnyLength(buffer, sample_rate, volume_threshold) ==
  IF ~buffer.rms.nan /\ buffer.rms.value < volume_threshold
  THEN Undetected(None)
  ELSE LET best == PeriodFold(buffer, sample_rate \div MaxFrequency,
                              (sample_rate \div MinFrequency) - 1, BestStart)
       IN IF best.best_period > 0
               /\ AboveThreshold(buffer, best.best_correlation)
          THEN Detected(best.best_period, sample_rate)
          ELSE Undetected(best.best_period)

\* A comparison with NaN is false: an RMS of NaN passes the volume test.
DetectPitch(buffer, sample_rate, volume_threshold) ==
  IF ~buffer.rms.nan /\ buffer.rms.value < volume_threshold
  THEN Undetected(None)
  ELSE LET min_period == sample_rate \div MaxFrequency
           max_period == sample_rate \div MinFrequency
       IN IF buffer.len < max_period THEN Undetected(None)
          ELSE LET best == PeriodFold(buffer, min_period, max_period - 1,
                                      BestStart)
               IN IF best.best_period > 0
                       /\ AboveThreshold(buffer, best.best_correlation)
                  THEN Detected(best.best_period, sample_rate)
                  ELSE Undetected(best.best_period)

\* round(n / d): the nearest integer, a half to the even neighbour
RoundDiv(n, d) ==
  LET q == n \div d
      r == n % d
  IN IF 2 * r < d THEN q
     ELSE IF 2 * r > d THEN q + 1
     ELSE IF q % 2 = 0 THEN q ELSE q + 1

\* int(window_size * sample_rate), the size being given in milliseconds
SamplesOf(ms, sample_rate) == (ms * sample_rate) \div 1000

\* {'time': round(start_idx / sample_rate, 3), 'pitch': round(pitch, 2) if
\* pitch else None}: the time in milliseconds, the pitch in 0.01 Hz
AudioEntry(start_idx, sample_rate, pitch) ==
  [time |-> RoundDiv(start_idx * 1000, sample_rate),
   pitch |-> IF pitch.kind = "freq"
             THEN RoundDiv(100 * pitch.freq.num, pitch.freq.den)
             ELSE None]

(***************************************************************************)
(* The inputs of detect_pitch and of analyze_audio_file.                   *)
(***************************************************************************)
SampleRates == {8000, 11025, LibrosaRate}
\* volume_threshold, in thousandths; callers pass 0.003 and 0.02
VolumeThresholds == {0 - 10, 0, 3, 10, AudioVolumeThreshold}
RmsValues == {NaN, Num(2), Num(3), Num(19), Num(AudioVolumeThreshold)}
CorrValues == {CorrThreshold, CorrThreshold + 1, 90}
Backgrounds == {NaN, Num(0)}

\* the periods where a buffer may have a correlation peak
PeakPeriods(sample_rate) ==
  { sample_rate \div MaxFrequency, (sample_rate \div MaxFrequency) + 1,
    (sample_rate \div MinFrequency) - 1 }
PeakLists(sample_rate) ==
  LET one == {Peak(p, Num(c)) : p \in PeakPeriods(sample_rate), c \in CorrValues}
  IN {<<>>} \cup {<<x>> : x \in one}
       \cup {xy \in one \X one : xy[1].period < xy[2].period}
BufferLengths(sample_rate) ==
  { 0, (sample_rate \div MinFrequency) - 1, sample_rate \div MinFrequency,
    SamplesOf(WindowMs, sample_rate) }
\* A buffer of zeros: np.mean of no sample is NaN; slices of zeros have no
\* variance, and np.corrcoef divides by it: every correlation is NaN.
ZeroBuffer(len) == Buffer(len, IF len = 0 THEN NaN ELSE Num(0), <<>>, NaN)
Buffers(sample_rate) ==
  {Buffer(len, rms, peaks, bg) :
     len \in BufferLengths(sample_rate), rms \in RmsValues,
     peaks \in PeakLists(sample_rate), bg \in Backgrounds}
  \cup {ZeroBuffer(len) : len \in BufferLengths(sample_rate)}

\* sines of one window, of amplitude 0.7
SineFrequencies == {MinFrequency, 100, 220, 440, 795}
SineBuffers(sample_rate) ==
  {SineBuffer(SamplesOf(WindowMs, sample_rate), Num(495), f, sample_rate) :
     f \in SineFrequencies}

\* An audio file by the windows cut from it: silence, a steady tone, a
\* tone at the shortest period searched, or tone and silence in turn.
Contents == {"silence", "tone", "edge", "mixed"}
Window(content, k, sample_rate) ==
  LET len == SamplesOf(WindowMs, sample_rate)
      silence == Buffer(len, Num(0), <<>>, NaN)
      tone == Buffer(len, Num(50),
                     <<Peak(sample_rate \div 220, Num(95))>>, Num(0))
      edge == Buffer(len, Num(50),
                     <<Peak(sample_rate \div MaxFrequency, Num(95))>>, Num(0))
  IN CASE content = "silence" -> silence
       [] content = "tone" -> tone
       [] content = "edge" -> edge
       [] OTHER -> IF k % 2 = 0 THEN tone ELSE silence

\* lengths in samples: empty, one window, one sample more, and longer
AudioLengths(sample_rate) ==
  LET w == SamplesOf(WindowMs, sample_rate)
      h == SamplesOf(HopMs, sample_rate)
  IN {0, w, w + 1, 5 * h, 10 * h + 7, 20 * h, 30 * h}

\* loader: which library analyze_audio_file found; librosa resamples
AudioFile(loader, readable, sample_rate, total_samples, content) ==
  [loader |-> loader, readable |-> readable, sample_rate |-> sample_rate,
   total_samples |-> total_samples, content |-> content]
AudioFiles ==
  {AudioFile("librosa", TRUE, LibrosaRate, n, c) :
     n \in AudioLengths(LibrosaRate), c \in Contents}
  \cup
  UNION {{AudioFile("scipy", TRUE, sr, n, c) :
            n \in AudioLengths(sr), c \in Contents} : sr \in SampleRates}
  \cup
  { AudioFile("none", TRUE, LibrosaRate, 20 * SamplesOf(HopMs, LibrosaRate),
              "tone"),
    AudioFile("librosa", FALSE, LibrosaRate, 0, "silence"),
    AudioFile("scipy", FALSE, LibrosaRate, 0, "silence") }

(***************************************************************************)
(* The scripts that write static/assets/music_pitch_data.json, and the     *)
(* handler that reads it.  A Python value is None, a number, a timeline    *)
(* entry {'time', 'pitch'}, a list, a tuple, or the dict {'timeline',      *)
(* 'metadata'} known by its timeline and its metadata source_type.         *)
(***************************************************************************)
PyValue(type, num, tag, items) ==
  [type |-> type, num |-> num, tag |-> tag, items |-> items]
PyNone == PyValue("none", 0, "", <<>>)
PyNumber(n) == PyValue("number", n, "", <<>>)
PyEntry(time, pitch) == PyValue("entry", 0, "", <<PyNumber(time), pitch>>)
PyList(items) == PyValue("list", 0, "", items)
PyTuple(a, b) == PyValue("tuple", 0, "", <<a, b>>)
PyDict(timeline, source_type) == PyValue("dict", 0, source_type, <<timeline>>)
Unset == PyValue("unset", 0, "", <<>>)

\* Python truth value: `if not timeline_data`, `if timeline_data`
PyTruthy(v) ==
  CASE v.type = "none" -> FALSE
    [] v.type \in {"list", "tuple"} -> v.items # <<>>
    [] v.type = "number" -> v.num # 0
    [] OTHER -> TRUE

\* what json.load reads back from what json.dump wrote: a tuple is written
\* as an array and comes back as a list
RECURSIVE JsonOf(_)
JsonOf(v) ==
  PyValue(IF v.type = "tuple" THEN "list" ELSE v.type, v.num, v.tag,
          [i \in DOMAIN v.items |-> JsonOf(v.items[i])])

\* [d['pitch'] for d in timeline_data if d['pitch']] raises TypeError when
\* an item is no dict
StatisticsRaise(timeline) ==
  \E i \in DOMAIN timeline.items : timeline.items[i].type # "entry"

Scripts ==
  {"analyze_from_midi", "analyze_music", "auto_analyze",
   "perfect_vocal_score", "convert_and_separate", "analyze_vocal"}

\* the scripts that keep the pair analyze_vocal_with_pyin returns in one
\* name, and those that unpack it
KeepsPair(s) == s \in {"perfect_vocal_score", "convert_and_separate"}

\* metadata source_type of the dict a script writes ("" when it has none)
SourceType(s, from_midi) ==
  CASE s = "analyze_from_midi" -> "midi"
    [] s = "perfect_vocal_score" ->
         IF from_midi THEN "midi" ELSE "vocal_audio"
    [] s = "convert_and_separate" -> "vocal_audio_only"
    [] s = "analyze_vocal" -> "vocal_audio_only"
    [] OTHER -> ""

\* the object handed to json.dump: analyze_music.main dumps the list itself
Document(s, timeline, from_midi) ==
  IF s = "analyze_music" THEN timeline
  ELSE PyDict(timeline, SourceType(s, from_midi))

\* The file: absent, or the text of `doc` of which `flushed` of Chunks parts
\* have reached it. open(..., 'w') empties the file, json.dump writes it part
\* by part, leaving the `with` block completes it.
Chunks == 2
TimelineFile(doc, flushed, writer) ==
  [doc |-> doc, flushed |-> flushed, writer |-> writer]
NoTimelineFile == TimelineFile(PyNone, 0, "none")
Complete(f) == f.writer # "none" /\ f.flushed = Chunks

\* what the analysis functions return
SmallTimeline == <<PyEntry(0, PyNone), PyEntry(50, PyNumber(44000))>>
PreviousDoc == PyDict(PyList(<<PyEntry(0, PyNumber(22000))>>), "midi")
MidiResults == {PyNone, PyList(SmallTimeline)}
AudioResults == {PyNone, PyList(<<>>), PyList(SmallTimeline)}
PyinResults ==
  {PyTuple(PyNone, PyNone), PyTuple(PyList(SmallTimeline), PyNumber(0))}

\* What a run meets: whether the input file exists and is a MIDI file, what
\* the analysis functions return for it, whether the separated vocals are
\* there already, whether separation succeeds, whether the imports at the
\* top of auto_analyze.py succeeded, whether an earlier run left a file.
Environments ==
  [had_file : BOOLEAN, input_exists : BOOLEAN, input_kind : {"midi", "audio"},
   midi_result : MidiResults, audio_result : AudioResults,
   pyin_result : PyinResults, vocal_exists : BOOLEAN, separated : BOOLEAN,
   has_modules : BOOLEAN]

\* /api/pitch-timeline
TimelineResponse(status, timeline) == [status |-> status, timeline |-> timeline]
NoResponse == TimelineResponse(0, PyNone)
GetPitchTimelineResponse(f) ==
  IF f = NoTimelineFile THEN TimelineResponse(404, PyNone)
  ELSE IF ~Complete(f) THEN TimelineResponse(500, PyNone)
  ELSE IF f.doc.type = "dict" THEN TimelineResponse(200, f.doc.items[1])
  ELSE TimelineResponse(200, f.doc)

(***************************************************************************)
(* State.                                                                  *)
(***************************************************************************)
VARIABLES
  backend,                \* which library analyze_midi_file found
  instruments,            \* pm.instruments (pretty_midi)
  tracks,                 \* mid.tracks (mido)
  total_time,             \* pm.get_end_time() / mid.length
  time_resolution,
  requested_idx,          \* the vocal_track_idx argument
  vocal_track_idx,
  scan_idx,               \* track_idx of the selection loop
  report,                 \* one row per track the selection loop has seen
  candidates,
  fallback_tracks,
  notes,                  \* vocal_track.notes / notes
  sorted_notes,
  vocal_start_time,
  instrumental_threshold,
  timeline_data,
  current_time,
  pc,
  result,                 \* "pending", "timeline" or "none" (return None)
  entry,                  \* scoring: the function or handler called
  audio,                  \* the request's audioData
  rate,                   \* the request's sampleRate
  detect_called,          \* the handler has called detect_pitch
  user_pitch,             \* the user frequency (the handler: detect_pitch's)
  target_pitch,
  outcome,                \* what the call returned or raised / the response
  audio_entry,            \* audio: "detect_pitch" or "analyze_audio_file"
  sample_rate,
  volume_threshold,
  buffer,                 \* detect_pitch's buffer / the current window
  detected,               \* what detect_pitch returned
  audio_file,             \* the file given to analyze_audio_file
  total_samples,
  window_samples,
  hop_samples,
  start_idx,
  audio_timeline,         \* timeline_data of analyze_audio_file
  audio_pc,
  audio_result,           \* "pending", "timeline" or "none" (return None)
  script,                 \* scripts: the main() that runs
  midi_file,              \* its MIDI file argument: "none", "missing", "exists"
  env,                    \* what the run meets
  script_pc,
  script_timeline,        \* timeline_data of the script
  started,                \* the stages the run has entered
  file,                   \* static/assets/music_pitch_data.json
  exit_status,            \* "running", "returned", "exit1" or "crashed"
  get_response            \* the answer of GET /api/pitch-timeline

vars == << backend, instruments, tracks, total_time, time_resolution,
           requested_idx, vocal_track_idx, scan_idx, report, candidates,
           fallback_tracks, notes, sorted_notes, vocal_start_time,
           instrumental_threshold, timeline_data, current_time, pc, result,
           entry, audio, rate, detect_called, user_pitch, target_pitch,
           outcome, audio_entry,
           sample_rate, volume_threshold, buffer, detected, audio_file,
           total_samples, window_samples, hop_samples, start_idx,
           audio_timeline, audio_pc, audio_result, script, midi_file, env,
           script_pc, script_timeline, started, file, exit_status,
           get_response >>

inputs == << backend, instruments, tracks, total_time, time_resolution,
             requested_idx >>
selection == << scan_idx, report, candidates, fallback_tracks >>
prepared == << notes, sorted_notes, vocal_start_time, instrumental_threshold >>
analysis == << inputs, vocal_track_idx, selection, prepared, timeline_data,
               current_time, pc, result >>
scoring == << entry, audio, rate, detect_called, user_pitch, target_pitch,
             outcome >>
listening == << audio_entry, sample_rate, volume_threshold, buffer, detected,
                audio_file, total_samples, window_samples, hop_samples,
                start_idx, audio_timeline, audio_pc, audio_result >>

batch == << script, midi_file, env, script_pc, script_timeline, started, file,
           exit_status, get_response >>

Pending == [kind |-> "pending", value |-> 0]

\* no script runs
NoEnvironment ==
  [had_file |-> FALSE, input_exists |-> FALSE, input_kind |-> "audio",
   midi_result |-> PyNone,
   audio_result |-> PyNone, pyin_result |-> PyTuple(PyNone, PyNone),
   vocal_exists |-> FALSE, separated |-> FALSE, has_modules |-> FALSE]
BatchIdle ==
  /\ script = "none"
  /\ midi_file = "none"
  /\ env = NoEnvironment
  /\ script_pc = "idle"
  /\ script_timeline = Unset
  /\ started = {}
  /\ file = NoTimelineFile
  /\ exit_status = "running"
  /\ get_response = NoResponse

\* no scoring call is in progress
ScoringIdle ==
  /\ entry = "none"
  /\ audio = "absent"
  /\ rate = "absent"
  /\ detect_called = FALSE
  /\ user_pitch = NoPitch
  /\ target_pitch = NoPitch
  /\ outcome = Pending

\* no call of the audio path is in progress
NotRun == [kind |-> "pending", best_period |-> None, freq |-> Frac(0, 1)]
NoBuffer == Buffer(0, Num(0), <<>>, NaN)
NoFile == AudioFile("none", FALSE, 0, 0, "silence")
ListeningIdle ==
  /\ audio_entry = "none"
  /\ sample_rate = 0
  /\ volume_threshold = 0
  /\ buffer = NoBuffer
  /\ detected = NotRun
  /\ audio_file = NoFile
  /\ total_samples = 0
  /\ window_samples = 0
  /\ hop_samples = 0
  /\ start_idx = 0
  /\ audio_timeline = <<>>
  /\ audio_pc = "idle"
  /\ audio_result = "pending"

\* no analysis run is in progress
AnalysisIdle ==
  /\ backend = "none"
  /\ instruments = <<>>
  /\ tracks = <<>>
  /\ total_time = 0
  /\ time_resolution = 1
  /\ requested_idx = None
  /\ vocal_track_idx = None
  /\ scan_idx = 0
  /\ report = <<>>
  /\ candidates = <<>>
  /\ fallback_tracks = <<>>
  /\ notes = <<>>
  /\ sorted_notes = <<>>
  /\ vocal_start_time = None
  /\ instrumental_threshold = Frac(0, 1)
  /\ timeline_data = <<>>
  /\ current_time = 0
  /\ pc = "idle"
  /\ result = "pending"

Init ==
  \E c \in Calls :
    /\ backend = c.backend
    /\ instruments = c.instruments
    /\ tracks = c.tracks
    /\ total_time = c.total_time
    /\ time_resolution = c.time_resolution
    /\ requested_idx = c.vocal_track_idx
    /\ vocal_track_idx = c.vocal_track_idx
    /\ scan_idx = 0
    /\ report = <<>>
    /\ candidates = <<>>
    /\ fallback_tracks = <<>>
    /\ notes = <<>>
    /\ sorted_notes = <<>>
    /\ vocal_start_time = None
    /\ instrumental_threshold = Frac(0, 1)
    /\ timeline_data = <<>>
    /\ current_time = 0
    /\ pc = "call"
    /\ result = "pending"
    /\ ScoringIdle
    /\ ListeningIdle
    /\ BatchIdle

\* analyze_midi_file: pick the back-end
AnalyzeMidiFile ==
  /\ pc = "call"
  /\ pc' = IF backend = "none" THEN "done"
           ELSE IF vocal_track_idx = None THEN "scan" ELSE "collect"
  /\ result' = IF backend = "none" THEN "none" ELSE result
  /\ UNCHANGED << scoring, listening, batch >>
  /\ UNCHANGED << inputs, vocal_track_idx, selection, prepared,
                  timeline_data, current_time >>

Row(idx, kind, n, poly, avg, type, cand) ==
  [track_idx |-> idx, kind |-> kind, n |-> n, poly |-> poly, avg |-> avg,
   type_str |-> type, candidate |-> cand]

\* One iteration of the selection loop, pretty_midi.
RowPrettyMidi(idx, instrument) ==
  IF instrument.is_drum
  THEN Row(idx, "drum", Len(instrument.notes), Frac(0, 1), Frac(0, 1), "Drums", FALSE)
  ELSE IF Len(instrument.notes) < MinNotes \/ Len(instrument.notes) < 2
  THEN Row(idx, "short", Len(instrument.notes), Frac(0, 1), Frac(0, 1), "TooShort", FALSE)
  ELSE LET sorted == SortByStart(instrument.notes)
           poly == PolyphonyPrettyMidi(sorted)
           avg == AvgPitch(instrument.notes)
       IN Row(idx, "scored", Len(instrument.notes), poly, avg,
              TypeStr(poly, avg), IsVocalCandidate(poly, avg))

\* One iteration of the selection loop, mido.
RowMido(idx, track) ==
  LET note_events == CandidatePass(track, TicksPerBeat, total_time)
  IN IF Len(note_events) < MinNotes \/ Len(note_events) < 2
     THEN Row(idx, "short", Len(note_events), Frac(0, 1), Frac(0, 1), "TooShort", FALSE)
     ELSE LET sorted == SortByStart(note_events)
              poly == PolyphonyMido(sorted)
              avg == AvgPitch(note_events)
          IN Row(idx, "scored", Len(note_events), poly, avg,
                 TypeStr(poly, avg), IsVocalCandidate(poly, avg))

ScanTrackPrettyMidi ==
  /\ pc = "scan" /\ backend = "pretty_midi"
  /\ scan_idx < Len(instruments)
  /\ LET row == RowPrettyMidi(scan_idx, instruments[scan_idx + 1])
     IN /\ report' = Append(report, row)
        /\ candidates' = IF row.candidate THEN Append(candidates, row)
                         ELSE candidates
  /\ scan_idx' = scan_idx + 1
  /\ UNCHANGED << scoring, listening, batch >>
  /\ UNCHANGED << inputs, vocal_track_idx, fallback_tracks, prepared,
                  timeline_data, current_time, pc, result >>

ScanTrackMido ==
  /\ pc = "scan" /\ backend = "mido"
  /\ scan_idx < Len(tracks)
  /\ LET row == RowMido(scan_idx, tracks[scan_idx + 1])
     IN /\ report' = Append(report, row)
        /\ candidates' = IF row.candidate THEN Append(candidates, row)
                         ELSE candidates
  /\ scan_idx' = scan_idx + 1
  /\ UNCHANGED << scoring, listening, batch >>
  /\ UNCHANGED << inputs, vocal_track_idx, fallback_tracks, prepared,
                  timeline_data, current_time, pc, result >>

\* After the loop, pretty_midi: the best candidate, or Track 0.
SelectedPrettyMidi(cands) ==
  IF cands # <<>> THEN BestCandidate(cands).track_idx ELSE 0

ChooseTrackPrettyMidi ==
  /\ pc = "scan" /\ backend = "pretty_midi"
  /\ scan_idx = Len(instruments)
  /\ vocal_track_idx' = SelectedPrettyMidi(candidates)
  /\ pc' = "collect"
  /\ UNCHANGED << scoring, listening, batch >>
  /\ UNCHANGED << inputs, selection, prepared, timeline_data, current_time,
                  result >>

\* The fallback list of the mido back-end: every track with a completed note.
RECURSIVE FallbackFrom(_, _)
FallbackFrom(trks, i) ==
  IF i > Len(trks) THEN <<>>
  ELSE LET note_events == FallbackPass(trks[i], TicksPerBeat)
       IN (IF Len(note_events) > 0
           THEN << [track_idx |-> i - 1, avg |-> AvgPitch(note_events),
                    n |-> Len(note_events)] >>
           ELSE <<>>) \o FallbackFrom(trks, i + 1)

FallbackTracks(trks) == FallbackFrom(trks, 1)

\* After the loop, mido: the best candidate, else the best fallback, else 0.
SelectedMido(cands, fb) ==
  IF cands # <<>> THEN BestCandidate(cands).track_idx
  ELSE IF fb # <<>> THEN BestFallback(fb).track_idx
  ELSE 0

ChooseTrackMido ==
  /\ pc = "scan" /\ backend = "mido"
  /\ scan_idx = Len(tracks)
  /\ fallback_tracks' = IF candidates # <<>> THEN fallback_tracks
                        ELSE FallbackTracks(tracks)
  /\ vocal_track_idx' = SelectedMido(candidates, fallback_tracks')
  /\ pc' = "collect"
  /\ UNCHANGED << scoring, listening, batch >>
  /\ UNCHANGED << inputs, scan_idx, report, candidates, prepared,
                  timeline_data, current_time, result >>

\* The selected track's notes, the vocal start and the gap threshold;
\* return None when the track has no note (or does not exist: IndexError).
Prepare(ns) ==
  /\ notes' = ns
  /\ sorted_notes' = SortByStart(ns)
  /\ vocal_start_time' = IF ns = <<>> THEN None ELSE VocalStartTime(ns)
  /\ instrumental_threshold' =
       IF ns = <<>> THEN instrumental_threshold
       ELSE InstrumentalThreshold(SortByStart(ns))
  /\ pc' = IF ns = <<>> THEN "done" ELSE "loop"
  /\ result' = IF ns = <<>> THEN "none" ELSE result

CollectPrettyMidi ==
  /\ pc = "collect" /\ backend = "pretty_midi"
  /\ LET idx == IF Len(instruments) <= vocal_track_idx THEN 0
                ELSE vocal_track_idx
     IN /\ vocal_track_idx' = idx
        /\ Prepare(IF Len(instruments) = 0 THEN <<>>
                   ELSE instruments[idx + 1].notes)
  /\ UNCHANGED << scoring, listening, batch >>
  /\ UNCHANGED << inputs, selection, timeline_data, current_time >>

\* A faulty variant: tracks_to_process is every track of the file.
CollectMidoEveryTrack ==
  /\ pc = "collect" /\ backend = "mido"
  /\ LET RECURSIVE Every(_)
         Every(i) ==
           IF i = 0 THEN <<>>
           ELSE Every(i - 1)
                  \o TimelinePass(tracks[i], TicksPerBeat, total_time)
     IN Prepare(IF vocal_track_idx >= Len(tracks) THEN <<>>
                ELSE Every(Len(tracks)))
  /\ UNCHANGED << scoring, listening, batch >>
  /\ UNCHANGED << inputs, vocal_track_idx, selection, timeline_data,
                  current_time >>

CollectMido ==
  /\ pc = "collect" /\ backend = "mido"
  /\ Prepare(IF vocal_track_idx >= Len(tracks) THEN <<>>
             ELSE TimelinePass(tracks[vocal_track_idx + 1], TicksPerBeat,
                               total_time))
  /\ UNCHANGED << scoring, listening, batch >>
  /\ UNCHANGED << inputs, vocal_track_idx, selection, timeline_data,
                  current_time >>

\* A faulty variant: the time cut down to a whole number of grid steps.
EntryCoarse(t, pitch) ==
  [time |-> Grid * (t \div Grid), pitch |-> RoundPitch(pitch)]

\* {'time': round(current_time, 3), 'pitch': round(pitch, 2) if pitch else
\* None}.  Every time of the model is a whole number of 0.05 s, that is of
\* 50 ms, which rounding to three decimals leaves as it is.
Entry(t, pitch) == [time |-> t, pitch |-> RoundPitch(pitch)]

\* One iteration of `while current_time <= total_time`.  The progress line
\* divides by total_time: a total_time of 0 raises, and the except clause
\* returns None.
StepPrettyMidi ==
  /\ pc = "loop" /\ backend = "pretty_midi"
  /\ current_time <= total_time
  /\ timeline_data' =
       Append(timeline_data,
              Entry(current_time,
                    PitchAtPrettyMidi(notes, sorted_notes, current_time,
                                      vocal_start_time, instrumental_threshold)))
  /\ current_time' = current_time + time_resolution
  /\ pc' = IF total_time = 0 THEN "done" ELSE pc
  /\ result' = IF total_time = 0 THEN "none" ELSE result
  /\ UNCHANGED << scoring, listening, batch >>
  /\ UNCHANGED << inputs, vocal_track_idx, selection, prepared >>

StepMido ==
  /\ pc = "loop" /\ backend = "mido"
  /\ current_time <= total_time
  /\ timeline_data' =
       Append(timeline_data,
              Entry(current_time,
                    PitchAtMido(notes, sorted_notes, current_time,
                                vocal_start_time, instrumental_threshold)))
  /\ current_time' = current_time + time_resolution
  /\ pc' = IF total_time = 0 THEN "done" ELSE pc
  /\ result' = IF total_time = 0 THEN "none" ELSE result
  /\ UNCHANGED << scoring, listening, batch >>
  /\ UNCHANGED << inputs, vocal_track_idx, selection, prepared >>

\* The loop ends: return timeline_data.
ReturnTimeline ==
  /\ pc = "loop"
  /\ current_time > total_time
  /\ pc' = "done"
  /\ result' = "timeline"
  /\ UNCHANGED << scoring, listening, batch >>
  /\ UNCHANGED << inputs, vocal_track_idx, selection, prepared,
                  timeline_data, current_time >>

Next ==
  \/ AnalyzeMidiFile
  \/ ScanTrackPrettyMidi
  \/ ScanTrackMido
  \/ ChooseTrackPrettyMidi
  \/ ChooseTrackMido
  \/ CollectPrettyMidi
  \/ CollectMido
  \/ StepPrettyMidi
  \/ StepMido
  \/ ReturnTimeline

Spec == Init /\ [][Next]_vars

(***************************************************************************)
(* The scoring calls: calculate_score called directly, and through the     *)
(* /api/analyze-pitch handler.                                             *)
(***************************************************************************)
InitScore ==
  /\ AnalysisIdle
  /\ ListeningIdle
  /\ BatchIdle
  /\ outcome = Pending
  /\ detect_called = FALSE
  /\ \/ /\ entry = "calculate_score"
        /\ audio = "absent"
        /\ rate = "absent"
        /\ user_pitch \in PitchValues
        /\ target_pitch \in PitchValues
     \/ /\ entry = "frequency_difference"
        /\ audio = "absent"
        /\ rate = "absent"
        /\ user_pitch \in PitchValues
        /\ target_pitch \in PitchValues
     \/ /\ entry = "analyze_pitch"
        /\ audio \in {"absent", "samples", "non_numeric"}
        /\ rate \in SampleRateFields
        /\ user_pitch \in DetectOutcomes(rate)
        /\ target_pitch \in PitchValues

FrequencyDifferenceCall ==
  /\ entry = "frequency_difference" /\ outcome = Pending
  /\ outcome' = FrequencyDifference(user_pitch, target_pitch)
  /\ UNCHANGED << analysis, listening, batch, entry, audio, rate, detect_called,
                  user_pitch, target_pitch >>

CalculateScoreCall ==
  /\ entry = "calculate_score" /\ outcome = Pending
  /\ outcome' = CalculateScore(user_pitch, target_pitch)
  /\ UNCHANGED << analysis, listening, batch, entry, audio, rate, detect_called,
                  user_pitch, target_pitch >>

AnalyzePitch ==
  /\ entry = "analyze_pitch" /\ outcome = Pending
  /\ outcome' = AnalyzePitchResponse(audio, user_pitch, target_pitch)
  /\ detect_called' = DetectInvoked(audio)
  /\ UNCHANGED << analysis, listening, batch, entry, audio, rate, user_pitch,
                  target_pitch >>

NextScore ==
  \/ FrequencyDifferenceCall
  \/ CalculateScoreCall
  \/ AnalyzePitch

SpecScore == InitScore /\ [][NextScore]_vars

(***************************************************************************)
(* The audio path: detect_pitch called directly, and analyze_audio_file,   *)
(* which calls it on every window.                                         *)
(***************************************************************************)
InitAudio ==
  /\ AnalysisIdle
  /\ ScoringIdle
  /\ BatchIdle
  /\ detected = NotRun
  /\ total_samples = 0
  /\ window_samples = 0
  /\ hop_samples = 0
  /\ start_idx = 0
  /\ audio_timeline = <<>>
  /\ audio_result = "pending"
  /\ \/ /\ audio_entry = "detect_pitch"
        /\ sample_rate \in SampleRates
        /\ volume_threshold \in VolumeThresholds
        /\ buffer \in Buffers(sample_rate) \cup SineBuffers(sample_rate)
        /\ audio_file = NoFile
        /\ audio_pc = "idle"
     \/ /\ audio_entry = "analyze_audio_file"
        /\ sample_rate = 0
        /\ volume_threshold = AudioVolumeThreshold
        /\ buffer = NoBuffer
        /\ audio_file \in AudioFiles
        /\ audio_pc = "call"

DetectPitchCall ==
  /\ audio_entry = "detect_pitch" /\ detected = NotRun
  /\ detected' = DetectPitch(buffer, sample_rate, volume_threshold)
  /\ UNCHANGED << analysis, scoring, batch, audio_entry, sample_rate,
                  volume_threshold, buffer, audio_file, total_samples,
                  window_samples, hop_samples, start_idx, audio_timeline,
                  audio_pc, audio_result >>

\* Load the file: without librosa and scipy, or when the load raises, the
\* function returns None.
LoadAudio ==
  /\ audio_entry = "analyze_audio_file" /\ audio_pc = "call"
  /\ IF audio_file.loader = "none" \/ ~audio_file.readable
     THEN /\ audio_pc' = "done"
          /\ audio_result' = "none"
          /\ UNCHANGED << sample_rate, total_samples, window_samples,
                          hop_samples >>
     ELSE /\ audio_pc' = "loop"
          /\ audio_result' = audio_result
          /\ sample_rate' = audio_file.sample_rate
          /\ total_samples' = audio_file.total_samples
          /\ window_samples' = SamplesOf(WindowMs, audio_file.sample_rate)
          /\ hop_samples' = SamplesOf(HopMs, audio_file.sample_rate)
  /\ UNCHANGED << analysis, scoring, batch, audio_entry, volume_threshold, buffer,
                  detected, audio_file, start_idx, audio_timeline >>

\* One iteration of `for start_idx in range(0, total_samples -
\* window_samples, hop_samples)`.
WindowStep ==
  /\ audio_pc = "loop"
  /\ start_idx < total_samples - window_samples
  /\ LET window == Window(audio_file.content, start_idx \div hop_samples,
                          sample_rate)
         pitch == DetectPitch(window, sample_rate, volume_threshold)
     IN /\ buffer' = window
        /\ detected' = pitch
        /\ audio_timeline' =
             Append(audio_timeline, AudioEntry(start_idx, sample_rate, pitch))
  /\ start_idx' = start_idx + hop_samples
  /\ UNCHANGED << analysis, scoring, batch, audio_entry, sample_rate,
                  volume_threshold, audio_file, total_samples, window_samples,
                  hop_samples, audio_pc, audio_result >>

\* The range is exhausted: return timeline_data.
ReturnAudio ==
  /\ audio_pc = "loop"
  /\ start_idx >= total_samples - window_samples
  /\ audio_pc' = "done"
  /\ audio_result' = "timeline"
  /\ UNCHANGED << analysis, scoring, batch, audio_entry, sample_rate,
                  volume_threshold, buffer, detected, audio_file,
                  total_samples, window_samples, hop_samples, start_idx,
                  audio_timeline >>

NextAudio ==
  \/ DetectPitchCall
  \/ LoadAudio
  \/ WindowStep
  \/ ReturnAudio

SpecAudio == InitAudio /\ [][NextAudio]_vars

(***************************************************************************)
(* The scripts: one run of one main(), and one GET /api/pitch-timeline     *)
(* that may be served at any moment of it.                                 *)
(***************************************************************************)
InitBatch ==
  /\ AnalysisIdle
  /\ ScoringIdle
  /\ ListeningIdle
  /\ script \in Scripts
  /\ midi_file \in {"none", "missing", "exists"}
  /\ env \in Environments
  /\ script_pc = "start"
  /\ script_timeline = Unset
  /\ started = {}
  /\ file = IF env.had_file THEN TimelineFile(PreviousDoc, Chunks, "previous")
            ELSE NoTimelineFile
  /\ exit_status = "running"
  /\ get_response = NoResponse

\* sys.exit(1) / return / an exception nothing catches
Exit(status) ==
  /\ exit_status' = status
  /\ script_pc' = "done"

\* the tests of the arguments at the top of each main()
CheckArguments ==
  /\ script_pc = "start"
  /\ LET given == IF script = "analyze_from_midi" THEN midi_file = "exists"
                  ELSE env.input_exists
     IN IF ~given THEN Exit("exit1")
        ELSE /\ exit_status' = exit_status
             /\ script_pc' =
                  CASE script = "auto_analyze" ->
                         IF midi_file = "exists" THEN "midi" ELSE "separate"
                    [] script \in {"perfect_vocal_score",
                                   "convert_and_separate"} -> "separate"
                    [] OTHER -> "analyze"
  /\ UNCHANGED << analysis, scoring, listening, script, midi_file, env,
                  script_timeline, started, file, get_response >>

\* The MIDI branch. auto_analyze.main imports analyze_midi_file from
\* analyze_from_midi, which defines no such name: the ImportError is caught
\* and the run goes on with the audio. perfect_vocal_score.main writes the
\* timeline when there is one, and goes to its last lines in either case.
TryMidi ==
  /\ script_pc = "midi"
  /\ started' = started \cup {"midi"}
  /\ IF script = "auto_analyze"
     THEN /\ script_pc' = "separate"
          /\ UNCHANGED << script_timeline, exit_status >>
     ELSE /\ script_timeline' = env.midi_result
          /\ IF PyTruthy(env.midi_result)
             THEN script_pc' = "open" /\ exit_status' = exit_status
             ELSE Exit("returned")
  /\ UNCHANGED << analysis, scoring, listening, script, midi_file, env, file,
                  get_response >>

\* vocal separation
Separate ==
  /\ script_pc = "separate"
  /\ LET after == IF script = "perfect_vocal_score" /\ midi_file = "exists"
                  THEN "midi" ELSE "analyze"
         skipped == script # "convert_and_separate" /\ env.vocal_exists
     IN IF script = "auto_analyze" /\ ~env.has_modules
        THEN Exit("exit1") /\ started' = started
        ELSE IF skipped
        THEN /\ script_pc' = after
             /\ UNCHANGED << started, exit_status >>
        ELSE /\ started' = started \cup {"separation"}
             /\ IF env.separated
                THEN script_pc' = after /\ exit_status' = exit_status
                ELSE Exit("exit1")
  /\ UNCHANGED << analysis, scoring, listening, script, midi_file, env,
                  script_timeline, file, get_response >>

\* what the analysis function called by the script returns
AnalysisResult ==
  CASE script = "analyze_from_midi" -> env.midi_result
    [] script = "analyze_music" ->
         IF env.input_kind = "midi" THEN env.midi_result
         ELSE env.audio_result
    [] OTHER -> env.pyin_result

\* timeline_data = ...; if not timeline_data: sys.exit(1)
Analyze ==
  /\ script_pc = "analyze"
  /\ LET returned == AnalysisResult
         kept == IF returned.type = "tuple" /\ ~KeepsPair(script)
                 THEN returned.items[1] ELSE returned
     IN /\ script_timeline' = kept
        /\ started' = IF returned.type = "tuple" THEN started \cup {"pyin"}
                      ELSE started
        /\ IF PyTruthy(kept)
           THEN script_pc' = "open" /\ exit_status' = exit_status
           ELSE Exit("exit1")
  /\ UNCHANGED << analysis, scoring, listening, script, midi_file, env, file,
                  get_response >>

\* with open(output, 'w', encoding='utf-8') as f:
OpenFile ==
  /\ script_pc = "open"
  /\ file' = TimelineFile(JsonOf(Document(script, script_timeline,
                                          "midi" \in started)),
                          0, script)
  /\ script_pc' = "dump"
  /\ UNCHANGED << analysis, scoring, listening, script, midi_file, env,
                  script_timeline, started, exit_status, get_response >>

\* json.dump(result, f, ...), part by part
Dump ==
  /\ script_pc = "dump"
  /\ file.flushed < Chunks
  /\ file' = [file EXCEPT !.flushed = @ + 1]
  /\ script_pc' = IF file.flushed + 1 = Chunks THEN "stats" ELSE "dump"
  /\ UNCHANGED << analysis, scoring, listening, script, midi_file, env,
                  script_timeline, started, exit_status, get_response >>

\* the statistics printed after the file is closed, and the return
Statistics ==
  /\ script_pc = "stats"
  /\ IF StatisticsRaise(script_timeline) THEN Exit("crashed")
     ELSE Exit("returned")
  /\ UNCHANGED << analysis, scoring, listening, script, midi_file, env,
                  script_timeline, started, file, get_response >>

\* GET /api/pitch-timeline, served from the file as it is at that moment
GetPitchTimeline ==
  /\ script # "none"
  /\ get_response = NoResponse
  /\ get_response' = GetPitchTimelineResponse(file)
  /\ UNCHANGED << analysis, scoring, listening, script, midi_file, env,
                  script_pc, script_timeline, started, file, exit_status >>

NextBatch ==
  \/ CheckArguments
  \/ TryMidi
  \/ Separate
  \/ Analyze
  \/ OpenFile
  \/ Dump
  \/ Statistics
  \/ GetPitchTimeline

SpecBatch == InitBatch /\ [][NextBatch]_vars

(***************************************************************************)
(* Properties.  The quantities a property speaks of are computed here from *)
(* the file and the selected track's notes, not taken from the loop.       *)
(***************************************************************************)
Hz(pitch) == RoundPitch(MidiNoteToFrequency(pitch))

TrackCount == IF backend = "pretty_midi" THEN Len(instruments) ELSE Len(tracks)

\* the notes of track i (0-based) of the file
NotesOfTrack(i) ==
  IF backend = "pretty_midi" THEN instruments[i + 1].notes
  ELSE TimelinePass(tracks[i + 1], TicksPerBeat, total_time)

TracksWithNotes == {i \in 0..(TrackCount - 1) : NotesOfTrack(i) # <<>>}

AutoSelected == pc = "collect" /\ requested_idx = None

EntryIndices == 1..Len(timeline_data)
ActiveAt(t) == {i \in 1..Len(notes) : notes[i].start <= t /\ t < notes[i].end}
EndedAt(t) == {i \in 1..Len(notes) : notes[i].end <= t}
FollowingAt(t) == {i \in 1..Len(notes) : notes[i].start > t}

\* a timeline entry at or after the vocal start where no note sounds
IsGapEntry(k) ==
  /\ timeline_data[k].time >= vocal_start_time
  /\ ActiveAt(timeline_data[k].time) = {}

\* x > instrumental_threshold
BeyondThreshold(x) ==
  x * instrumental_threshold.den > instrumental_threshold.num

\* C1: at every timestamp t >= vocal_start where no note is active, the
\* entry is None if and only if t - prev_end or next_start - t exceeds the
\* instrumental threshold, prev_end being the greatest note end <= t.
C1_GapNoneIffBeyondThreshold ==
  \A k \in EntryIndices :
    LET t == timeline_data[k].time
        prev_end == SetMax({notes[i].end : i \in EndedAt(t)})
        next_start == SetMin({notes[i].start : i \in FollowingAt(t)})
    IN IsGapEntry(k) =>
         ( timeline_data[k].pitch = None
           <=> \/ (EndedAt(t) # {} /\ BeyondThreshold(t - prev_end))
               \/ (FollowingAt(t) # {} /\ BeyondThreshold(next_start - t)) )

\* avg_pitch of track i is at least FallbackPitch
HighTrack(i) == ~FracLT(AvgPitch(NotesOfTrack(i)), FallbackPitch, 1)

FallbackPool ==
  IF \E i \in TracksWithNotes : HighTrack(i)
  THEN {i \in TracksWithNotes : HighTrack(i)}
  ELSE TracksWithNotes

\* C2: when automatic selection finds no candidate, the selected track is a
\* track with notes and avg_pitch >= 50 that has the most notes among such
\* tracks, or, when no track has avg_pitch >= 50, a track with the most notes.
C2_FallbackPrefersHighThenCount ==
  (AutoSelected /\ candidates = <<>> /\ TracksWithNotes # {})
    => /\ vocal_track_idx \in FallbackPool
       /\ \A j \in FallbackPool :
            Len(NotesOfTrack(j)) <= Len(NotesOfTrack(vocal_track_idx))

\* C3: with automatic selection, analyze_midi_file returns a timeline
\* whenever some track of the file has a note.
C3_FailsOnlyWithoutNotes ==
  (pc = "done" /\ requested_idx = None /\ backend # "none"
     /\ TracksWithNotes # {})
    => result = "timeline"

Absent(f) == f.kind \in {"none", "zero", "neg"}

\* C4: when the user or the target frequency is None, 0 or negative, the
\* direct call returns the no-score value 0 and the handler answers 200 with
\* score 0; no exception is raised.
C4_NoScoreSentinel ==
  (outcome # Pending /\ (Absent(user_pitch) \/ Absent(target_pitch)))
    => /\ entry = "calculate_score" => outcome = Returned(0)
       /\ (entry = "analyze_pitch" /\ audio = "samples")
            => outcome = Response(200, 0, 0)

\* C5: the polyphony rate of every track that survives filtering is in [0, 1].
C5_PolyphonyWithinUnit ==
  \A k \in 1..Len(report) :
    report[k].kind = "scored"
      => /\ 0 <= report[k].poly.num
         /\ report[k].poly.num <= report[k].poly.den

IsCandidateRow(r) ==
  \E c \in 1..Len(candidates) : candidates[c].track_idx = r.track_idx

\* the drum flag of the track of row r (a mido track carries none)
FlaggedDrum(r) ==
  backend = "pretty_midi" /\ instruments[r.track_idx + 1].is_drum

ScoreGE(a, b) ==
  (10000 * (a.poly.den - a.poly.num) + a.n * a.poly.den) * b.poly.den
    >= (10000 * (b.poly.den - b.poly.num) + b.n * b.poly.den) * a.poly.den

SelectedNotes == NotesOfTrack(vocal_track_idx)

\* C7: when candidates exist, the selected track is the candidate of the
\* greatest score, the lowest track index among equal scores; a chordal
\* track (polyphony 0.5) is never selected beside a melodic one (0.05).
C7_BestCandidateSelected ==
  (AutoSelected /\ candidates # <<>>)
    => /\ \E c \in 1..Len(candidates) :
            /\ candidates[c].track_idx = vocal_track_idx
            /\ \A d \in 1..Len(candidates) :
                 /\ ScoreGE(candidates[c], candidates[d])
                 /\ ScoreGE(candidates[d], candidates[c])
                      => candidates[c].track_idx <= candidates[d].track_idx
       /\ (backend = "pretty_midi"
             /\ \E i \in 1..Len(instruments) :
                  ~instruments[i].is_drum /\ instruments[i].notes = Melodic)
            => SelectedNotes # Chordal
       /\ (backend = "mido" /\ \E i \in 1..Len(tracks) : tracks[i] = MelodicMsgs)
            => tracks[vocal_track_idx + 1] # ChordalMsgs

\* the second of two candidates scores higher and is selected
C7_Witness ==
  /\ AutoSelected /\ Len(candidates) = 2
  /\ ~ScoreGE(candidates[1], candidates[2])
  /\ vocal_track_idx = candidates[2].track_idx

\* the notes that have ended by t and started last
PrecedingNotes(t) ==
  {i \in EndedAt(t) : \A j \in EndedAt(t) : notes[j].start <= notes[i].start}
\* the notes that start after t and start first
FollowingNotes(t) ==
  {i \in FollowingAt(t) : \A j \in FollowingAt(t) : notes[i].start <= notes[j].start}

ClassifiedInstrumental(t) ==
  IsInstrumental(ScanNeighbours(sorted_notes, 1, t, None), t,
                 instrumental_threshold)

C9_HighestActivePitch ==
  \A k \in EntryIndices :
    LET t == timeline_data[k].time
    IN (t >= vocal_start_time /\ ActiveAt(t) # {})
         => /\ timeline_data[k].pitch # None
            /\ timeline_data[k].pitch
                 = Hz(SetMax({notes[i].pitch : i \in ActiveAt(t)}))

\* two notes sound at once, the lower one first in the list
C9_Witness ==
  \E k \in EntryIndices :
    LET t == timeline_data[k].time
    IN /\ t >= vocal_start_time
       /\ \E i, j \in ActiveAt(t) : i < j /\ notes[i].pitch < notes[j].pitch
       /\ timeline_data[k].pitch
            = Hz(SetMax({notes[i].pitch : i \in ActiveAt(t)}))

\* C10: every entry whose time is before the least note start of the
\* selected track is None.
C10_NoneBeforeVocalStart ==
  \A k \in EntryIndices :
    (notes # <<>>
       /\ timeline_data[k].time
            < SetMin({notes[i].start : i \in 1..Len(notes)}))
      => timeline_data[k].pitch = None

\* an entry before the vocal start while a note of another track sounds
C10_Witness ==
  /\ backend = "pretty_midi" /\ notes # <<>>
  /\ \E k \in EntryIndices :
       /\ timeline_data[k].time < vocal_start_time
       /\ timeline_data[k].pitch = None
       /\ \E i \in 1..Len(instruments) :
            /\ i # vocal_track_idx + 1
            /\ \E n \in 1..Len(instruments[i].notes) :
                 /\ instruments[i].notes[n].start <= timeline_data[k].time
                 /\ timeline_data[k].time < instruments[i].notes[n].end
\* C11: in every timeline of the MIDI path the entry of index i (counted
\* from 0) has the time i * time_resolution, so that the times increase
\* strictly by the constant step time_resolution.
C11_EntryTimes ==
  /\ \A k \in 1..Len(timeline_data) :
       timeline_data[k].time = (k - 1) * time_resolution
  /\ \A k \in 1..(Len(timeline_data) - 1) :
       /\ timeline_data[k].time < timeline_data[k + 1].time
       /\ timeline_data[k + 1].time - timeline_data[k].time = time_resolution

\* a returned timeline of several entries whose step does not divide the
\* duration
C11_Witness ==
  /\ pc = "done" /\ result = "timeline"
  /\ Len(timeline_data) > 3
  /\ total_time % time_resolution # 0

\* the loop has been entered and the call has returned
LoopReturned == pc = "done" /\ notes # <<>>

\* C12: for any duration >= 0 and resolution > 0 the timeline loop ends with
\* exactly floor(duration / resolution) + 1 entries, the first at time 0 and
\* the last at a time <= duration.
C12_EntryCount ==
  LoopReturned =>
    /\ result = "timeline"
    /\ Len(timeline_data) = (total_time \div time_resolution) + 1
    /\ timeline_data[1].time = 0
    /\ timeline_data[Len(timeline_data)].time <= total_time

\* a direct call with two positive frequencies has returned
Deviation == Abs(target_pitch.cents - user_pitch.cents)
PositiveCall(fn) ==
  /\ entry = fn /\ outcome # Pending
  /\ user_pitch.kind = "pos" /\ target_pitch.kind = "pos"

\* C14: calculate_score returns exactly 100 when the user frequency equals
\* the target frequency, whatever positive frequency that is, and exactly 50
\* when the absolute deviation is exactly 50 cents.
C14_PerfectAndFifty ==
  PositiveCall("calculate_score") =>
    /\ (user_pitch = target_pitch) => outcome = Returned(100)
    /\ (Deviation = 50) => outcome = Returned(50)

\* a call 50 cents off, away from the lowest frequency, has returned 50
C14_Witness ==
  /\ PositiveCall("calculate_score")
  /\ user_pitch.cents > 0 /\ target_pitch.cents = user_pitch.cents - 50
  /\ outcome = Returned(50)

\* C15: the integer score is non-increasing in the absolute deviation: the
\* score returned is at least the score of every target that is at least as
\* far from the user frequency, across the six ranges and after rounding.
C15_ScoreNonIncreasing ==
  PositiveCall("calculate_score") =>
    \A t \in PositivePitches :
      LET other == CalculateScore(user_pitch, t)
      IN /\ outcome.kind = "return" /\ other.kind = "return"
         /\ (Deviation <= Abs(t.cents - user_pitch.cents))
              => outcome.value >= other.value

\* a raw score of 97.5 was rounded to 98, and a deviation past 100 cents,
\* where the score is held at 0, is among the targets compared
C15_Witness ==
  /\ PositiveCall("calculate_score")
  /\ Deviation = 5 /\ outcome = Returned(98)
  /\ \E t \in PositivePitches :
       /\ Abs(t.cents - user_pitch.cents) > 100
       /\ CalculateScore(user_pitch, t) = Returned(0)

\* the breakpoints of the mapping and twice the raw score at each of them
Breakpoints == <<5, 10, 20, 30, 50>>
RawAtBreakpoint2 == <<195, 190, 170, 140, 100>>

AudioReturned ==
  /\ audio_entry = "analyze_audio_file"
  /\ audio_pc = "done" /\ audio_result = "timeline"

\* C13: the audio-path timeline meets the contract of the MIDI path: entry i
\* has the time i * hop_size, and the entries cover [0, duration], the last
\* entry lying within one step of the audio duration.
C13_AudioTimelineContract ==
  AudioReturned =>
    /\ \A k \in 1..Len(audio_timeline) :
         audio_timeline[k].time = (k - 1) * HopMs
    /\ audio_timeline # <<>>
    /\ LET last == audio_timeline[Len(audio_timeline)].time
       IN /\ last * sample_rate <= total_samples * 1000
          /\ total_samples * 1000 <= (last + HopMs) * sample_rate

\* detect_pitch has returned for `buffer` (called directly or on a window)
DetectReturned == detected # NotRun
MinPeriod == sample_rate \div MaxFrequency
MaxPeriod == sample_rate \div MinFrequency
Periods == MinPeriod..(MaxPeriod - 1)
FinitePeriods == {p \in Periods : ~Correlation(buffer, p).nan}
TooQuiet == ~buffer.rms.nan /\ buffer.rms.value < volume_threshold
BufferTooShort == buffer.len < MaxPeriod
LoopReached == DetectReturned /\ ~TooQuiet /\ ~BufferTooShort

\* C18: once the periods are searched, detect_pitch returns sample_rate / p
\* for the smallest period p whose correlation is the maximum of the finite
\* correlations, provided that maximum exceeds 0.15, and None otherwise; a
\* period of non-finite correlation is never the one selected.
C18_SmallestBestPeriod ==
  LoopReached =>
    LET finite == FinitePeriods
        best == IF finite = {} THEN 0
                ELSE SetMax({Correlation(buffer, p).value : p \in finite})
    IN /\ IF finite # {} /\ AboveThreshold(buffer, best)
          THEN LET p == SetMin({q \in finite :
                                  Correlation(buffer, q).value = best})
               IN detected = Detected(p, sample_rate)
          ELSE detected.kind = "none"
       /\ (detected.kind = "freq") => detected.best_period \in finite

\* two periods share the greatest correlation, all others being NaN: the
\* smaller one was returned
C18_Witness ==
  /\ LoopReached
  /\ Len(buffer.peaks) = 2
  /\ buffer.peaks[1].corr = buffer.peaks[2].corr
  /\ buffer.background = NaN
  /\ detected = Detected(buffer.peaks[1].period, sample_rate)

\* C19: every result of detect_pitch that is not None lies in the detection
\* band: 80 Hz <= result <= 800 Hz.
C19_WithinBand ==
  (DetectReturned /\ detected.kind = "freq")
    => /\ ~FracLT(detected.freq, MinFrequency, 1)
       /\ FracLE(detected.freq, MaxFrequency, 1)

\* C20: detect_pitch returns None, with no period selected, whenever the RMS
\* of the buffer is below volume_threshold or the buffer has fewer than
\* max_period samples.
C20_QuietOrShortIsNone ==
  (DetectReturned /\ (TooQuiet \/ BufferTooShort))
    => detected = Undetected(None)

\* a loud buffer one sample short of max_period, with a strong correlation
\* peak, gave None
C20_Witness ==
  /\ DetectReturned
  /\ ~TooQuiet /\ buffer.len = MaxPeriod - 1
  /\ \E i \in 1..Len(buffer.peaks) : buffer.peaks[i].corr.value > CorrThreshold
  /\ detected = Undetected(None)


\* C21: for a buffer of zeros of any length detect_pitch returns None
\* under every volume_threshold, also under a threshold of zero or below,
\* which the RMS test lets pass.
C21_ZeroBufferIsNone ==
  (audio_entry = "detect_pitch" /\ DetectReturned
     /\ buffer = ZeroBuffer(buffer.len))
    => detected.kind = "none"

\* a buffer of zeros passed the RMS test and the length test, and the loop
\* over the periods found no correlation
C21_Witness ==
  /\ audio_entry = "detect_pitch"
  /\ DetectReturned
  /\ buffer = ZeroBuffer(buffer.len)
  /\ volume_threshold <= 0
  /\ LoopReached
  /\ detected = Undetected(0)


\* a call detect_pitch(buffer, sr, 0.01) on a sine has returned
SineCall ==
  /\ audio_entry = "detect_pitch"
  /\ DetectReturned
  /\ buffer.sine > 0
  /\ volume_threshold = 10

\* C22: for a pure sine of f Hz, 80 <= f <= 800, with RMS above the
\* threshold, detect_pitch(buffer, sr, 0.01) returns a value within 2 Hz of
\* f, never a sub-harmonic of it.
C22_SineWithinTwoHz ==
  SineCall =>
    /\ detected.kind = "freq"
    /\ ~FracLT(detected.freq, buffer.sine - 2, 1)
    /\ FracLE(detected.freq, buffer.sine + 2, 1)


\* the handler has answered a request whose audioData or sampleRate is
\* missing or invalid
MalformedRequest ==
  /\ entry = "analyze_pitch"
  /\ outcome # Pending
  /\ \/ audio \in {"absent", "non_numeric"}
     \/ rate \in {"absent", "zero", "non_numeric"}

\* C23: a live-scoring request whose audioData or sampleRate is missing or
\* invalid is rejected (it is not answered with success) and detect_pitch is
\* not invoked for it.
C23_MalformedRejected ==
  MalformedRequest => (outcome.status # 200 /\ ~detect_called)


\* the run of a script is over
RunOver == script # "none" /\ exit_status # "running"

\* the analysis function the script called reported None (the pair
\* (None, None) for analyze_vocal_with_pyin)
ConstructionFailed ==
  script_timeline \in {PyNone, PyTuple(PyNone, PyNone)}

Orchestrators ==
  {"analyze_from_midi", "analyze_music", "auto_analyze",
   "perfect_vocal_score", "convert_and_separate"}

\* C24: in every orchestrating script, when timeline construction fails the
\* run ends in a reported failure and has written no timeline file.
C24_FailureWritesNothing ==
  (script \in Orchestrators /\ RunOver /\ ConstructionFailed)
    => (exit_status = "exit1" /\ file.writer # script)

\* a list of entries {time, pitch}, the pitch a number or null
IsTimeline(v) ==
  /\ v.type = "list"
  /\ \A i \in DOMAIN v.items :
       /\ v.items[i].type = "entry"
       /\ v.items[i].items[1].type = "number"
       /\ v.items[i].items[2].type \in {"number", "none"}

\* C25: every timeline file a script has written holds, under "timeline", a
\* list of entries {time, pitch}.
C25_TimelineShape ==
  (Complete(file) /\ file.writer \in Scripts)
    => (file.doc.type = "dict" /\ IsTimeline(file.doc.items[1]))

\* C26: auto_analyze.main given a MIDI file that exists (and that analyses)
\* writes the timeline of the MIDI file, source_type 'midi', and returns;
\* vocal separation and audio pitch analysis are never started.
C26_MidiArgumentUsed ==
  (script = "auto_analyze" /\ env.input_exists /\ midi_file = "exists"
     /\ PyTruthy(env.midi_result))
    => /\ started \cap {"separation", "pyin"} = {}
       /\ RunOver => /\ exit_status = "returned"
                     /\ Complete(file)
                     /\ file.writer = script
                     /\ file.doc.tag = "midi"

\* C28: a GET /api/pitch-timeline served while a script rewrites the file
\* answers success, with the whole previous timeline or the whole new one.
C28_ReadSeesWholeTimeline ==
  (script # "none" /\ env.had_file /\ get_response # NoResponse)
    => /\ get_response.status = 200
       /\ get_response.timeline
            \in {PreviousDoc.items[1], JsonOf(script_timeline)}


\* the set of the notes of a list
NoteSet(ns) == {ns[i] : i \in 1..Len(ns)}

\* C27: for every track of a file read with mido, the candidate-scoring
\* pass, the fallback pass and the timeline pass derive the same notes
\* (start, end, pitch).
C27_PassesAgree ==
  backend = "mido" =>
    \A i \in 1..Len(tracks) :
      LET candidate == CandidatePass(tracks[i], TicksPerBeat, total_time)
          fallback == FallbackPass(tracks[i], TicksPerBeat)
          collected == TimelinePass(tracks[i], TicksPerBeat, total_time)
      IN /\ NoteSet(fallback) = NoteSet(candidate)
         /\ NoteSet(collected) = NoteSet(candidate)

\* the rounded frequencies of the notes of track i
TrackPitches(i) ==
  LET ns == NotesOfTrack(i)
  IN {Hz(ns[j].pitch) : j \in 1..Len(ns)}

\* C29: every pitch of a MIDI timeline that is not None is the rounded
\* frequency of a note of the selected track, in both back-ends.
C29_PitchFromSelectedTrack ==
  timeline_data # <<>> =>
    LET pitches == TrackPitches(vocal_track_idx)
    IN \A k \in EntryIndices :
         timeline_data[k].pitch # None => timeline_data[k].pitch \in pitches

\* a file of two tracks read with mido: while the other track sounds a
\* note the selected track does not have, the entry holds the selected
\* track's pitch
C29_Witness ==
  /\ backend = "mido"
  /\ pc = "done"
  /\ result = "timeline"
  /\ Len(tracks) = 2
  /\ \E k \in EntryIndices :
       /\ timeline_data[k].pitch # None
       /\ LET other == NotesOfTrack(1 - vocal_track_idx)
              t == timeline_data[k].time
          IN \E j \in 1..Len(other) :
               /\ other[j].start <= t /\ t < other[j].end
               /\ Hz(other[j].pitch) \notin TrackPitches(vocal_track_idx)

\* the note of sorted_notes the fill takes: the last one with end <= t
PrecedingNote(t) == LastEndedNote(sorted_notes, t)

=============================================================================
